---- MODULE Spec2Model ----
(***************************************************************************)
(* Model of the WALS graph-RAG pipeline:                                   *)
(*   - WALSDataProcessor.generate_chunks (src/wals.py): the record batcher *)
(*     and the chunk renderer;                                             *)
(*   - GraphBuilder (src/graph_builder.py): the graph ingestion driver,    *)
(*     with the graph store modelled by the Cypher statements it is sent.  *)
(***************************************************************************)
EXTENDS Integers, Sequences, FiniteSets, Bags, TLC

(***************************************************************************)
(* Bounds of the model                                                     *)
(***************************************************************************)
MaxRows == 4

MaxBatch == 3

MaxOps == 2

MaxCsvOps == 3

MaxCsvRows == 2

MaxRenderRows == 2

MaxLanguages == 3

MaxEnhancedRows == 3

MaxEnhancedOps == 1

MaxEnhancedBatch == 2

MaxQuestions == 2

(***************************************************************************)
(* Values                                                                  *)
(***************************************************************************)
\* a missing CSV cell (pandas NaN) and a missing node property
NaN == "<NaN>"

Absent == "<absent>"

\* Range(s): the elements of a sequence
Range(s) == {s[k] : k \in DOMAIN s}

\* str(value) of a CSV cell: str(nan) is the text 'nan'
Str(v) == IF v = NaN THEN "nan" ELSE v

\* pd.notna(value)
NotNa(v) == v # NaN

\* the Name column, by row position
RowNames == <<"Javanese", "French", "Sundanese", "Basque", "Malay", "Breton">>

\* the values of the Family column, as groupby sorts them
FamilyOrder == <<"Austronesian", "Indo-European">>

CountryCodes == {"ID", "FR"}

MkRow(name, family, country) ==
    [ID |-> name, Name |-> name, Family |-> family, Subfamily |-> NaN,
     Genus |-> name, Country_ID |-> country, ISO639P3code |-> NaN,
     Macroarea |-> "Eurasia"]

\* the language tables (data/languages.csv) of n rows
TablesOfLen(n, families, countries) ==
    {[k \in 1..n |-> MkRow(RowNames[k], ff[k], cc[k])] :
        ff \in [1..n -> families], cc \in [1..n -> countries]}

(***************************************************************************)
(* State                                                                   *)
(***************************************************************************)
VARIABLES
    loaded,         \* 'languages' in self.data
    languages,      \* self.data['languages'] / data/languages.csv
    batch_size,     \* generate_chunks(batch_size)
    gpc,            \* position in generate_chunks
    families,       \* the groups of languages_df.groupby('Family'), in order
    fam_idx,        \* index of the family group being batched
    offset,         \* i of range(0, len(family_langs), batch_size)
    chunk_num,      \* chunk_num
    chunks,         \* the (family_name, batch) pairs handed to the renderer
    chunk_files,    \* chunk_files: the paths of the files written
    chunk_text,     \* the chunk files on disk: chunk number -> rendered text
    manifest,       \* the lines of output/logs/enhanced_chunk_list.txt
    graph,          \* GraphBuilder.graph: the graph-store connection
    transformer,    \* GraphBuilder.transformer
    nodes,          \* the nodes of the graph store, by internal node number
    edges,          \* the relationships of the graph store (a bag)
    extraction,     \* what the extraction service returns for each chunk file
    hash_of,        \* hash(str(properties)) in this process
    pc,             \* "idle", or "build" inside build_from_chunks
    build_files,    \* build_from_chunks: chunk_files
    preserve,       \* build_from_chunks: preserve_existing
    build_idx,      \* position of the chunk loop
    total_nodes,    \* total_nodes
    total_relationships, \* total_relationships
    pbar,           \* the progress bar count
    build_log,      \* what happened to each chunk of this build
    attempts,       \* calls of convert_to_graph_documents, per chunk position
    graph_documents, \* graph_documents after _fix_entity_ids, last chunk
    last_op,        \* the last operation that returned, with its arguments
    ops_left,       \* number of operations still to run
    features,       \* self.data: the values, codes and parameters tables
    explorer_graph, \* GraphExplorer.graph
    qa_chain,       \* GraphExplorer.qa_chain
    call,           \* the last query call: what it ran, showed and returned
    cli             \* one run of main.py: its mode, position and exit code

batchVars == <<loaded, languages, features, batch_size, gpc, families, fam_idx,
               offset, chunk_num, chunks, chunk_files, chunk_text, manifest>>

buildVars == <<pc, build_files, preserve, build_idx, total_nodes,
               total_relationships, pbar, build_log, attempts, graph_documents>>

graphVars == <<graph, transformer, nodes, edges, extraction, hash_of,
               buildVars, last_op, ops_left>>

explorerVars == <<explorer_graph, qa_chain, call>>

vars == <<batchVars, graphVars, explorerVars, cli>>

(***************************************************************************)
(* generate_chunks                                                         *)
(***************************************************************************)
\* country_names: the static table of problematic country codes
country_names ==
    [c \in {"ID", "US", "CA", "AU", "IN", "CN", "BR", "AR"} |->
        CASE c = "ID" -> "Indonesia"
          [] c = "US" -> "United States"
          [] c = "CA" -> "Canada"
          [] c = "AU" -> "Australia"
          [] c = "IN" -> "India"
          [] c = "CN" -> "China"
          [] c = "BR" -> "Brazil"
          [] c = "AR" -> "Argentina"]

\* the country code as it is: no lookup in country_names
CountryDisplayCode(country_id) == country_id

\* country_names.get(country_id, country_id)
CountryDisplay(country_id) ==
    IF country_id \in DOMAIN country_names THEN country_names[country_id]
    ELSE country_id

\* groupby that keeps the keys but not the grouping of the rows
GroupByMixed(df) ==
    LET keys == SelectSeq(FamilyOrder, LAMBDA f : \E k \in DOMAIN df : df[k].Family = f)
    IN  [g \in DOMAIN keys |->
            [key |-> keys[g],
             rows |-> SelectSeq(df, LAMBDA r : r.Family # NaN)]]

\* languages_df.groupby('Family'): one group per non-null key (dropna=True),
\* keys sorted, the rows of a group in source order
GroupBy(df) ==
    LET keys == SelectSeq(FamilyOrder, LAMBDA f : \E k \in DOMAIN df : df[k].Family = f)
    IN  [g \in DOMAIN keys |->
            [key |-> keys[g],
             rows |-> SelectSeq(df, LAMBDA r : r.Family = keys[g])]]

\* if pd.isna(family_name): family_name = "UnknownFamily"
FamilyLabel(key) == IF key = NaN THEN "UnknownFamily" ELSE key

\* a slice one row too long: iloc[i:i+batch_size+1]
IlocOverlap(rows, i, b) ==
    SubSeq(rows, i + 1, IF i + b + 1 <= Len(rows) THEN i + b + 1 ELSE Len(rows))

\* a slice one row too short: iloc[i:i+batch_size-1]
IlocShort(rows, i, b) ==
    SubSeq(rows, i + 1, IF i + b - 1 <= Len(rows) THEN i + b - 1 ELSE Len(rows))

\* family_langs.iloc[i:i+batch_size], i 0-based
Iloc(rows, i, b) ==
    SubSeq(rows, i + 1, IF i + b <= Len(rows) THEN i + b ELSE Len(rows))

\* the parameters _get_linguistic_features looks up, in its order
feature_params ==
    <<[id |-> "81A", name |-> "Word Order"],
      [id |-> "82A", name |-> "Subject-Verb Order"],
      [id |-> "83A", name |-> "Object-Verb Order"],
      [id |-> "85A", name |-> "Adposition-Noun Order"],
      [id |-> "86A", name |-> "Genitive-Noun Order"],
      [id |-> "87A", name |-> "Adjective-Noun Order"]>>

\* _get_feature_value: the code name of the first value row of the language
\* and parameter, None when a table, the value or the code is missing
GetFeatureValue(data, language_id, parameter_id) ==
    IF "values" \notin data.tables \/ "codes" \notin data.tables THEN "None"
    ELSE LET lang_values == SelectSeq(data.values,
                 LAMBDA v : v.Language_ID = language_id
                            /\ v.Parameter_ID = parameter_id)
         IN  IF lang_values = <<>> THEN "None"
             ELSE LET code_meaning == SelectSeq(data.codes,
                          LAMBDA c : c.ID = lang_values[1].Code_ID)
                  IN  IF code_meaning = <<>> THEN "None"
                      ELSE code_meaning[1].Name

\* _get_linguistic_features: the feature lines of one language
GetLinguisticFeatures(data, language) ==
    IF "values" \notin data.tables \/ "codes" \notin data.tables THEN <<>>
    ELSE LET found == SelectSeq(feature_params,
                 LAMBDA p : GetFeatureValue(data, language.ID, p.id) # "None")
         IN  IF found # <<>>
             THEN [k \in DOMAIN found |->
                     "- " \o found[k].name \o ": "
                          \o GetFeatureValue(data, language.ID, found[k].id)]
             ELSE <<"- Linguistic features: Available in WALS database">>

\* feature_info of _create_chunk_content
FeatureInfo(data, language) ==
    IF "values" \in data.tables /\ "parameters" \in data.tables
    THEN GetLinguisticFeatures(data, language)
    ELSE <<>>

\* lang_entry of _create_chunk_content, line by line; the rows of the model
\* have no Latitude and Longitude column, so lang.get(..., 0) gives 0
LangEntry(lang) ==
    [Language |-> "Language: " \o Str(lang.Name),
     Family |-> "- Family: " \o Str(lang.Family),
     Subfamily |-> "- Subfamily: " \o Str(lang.Subfamily),
     Genus |-> "- Genus: " \o Str(lang.Genus),
     Coordinates |-> "- Coordinates: 0, 0",
     Country |-> "- Country: " \o CountryDisplay(Str(lang.Country_ID)),
     ISOCode |-> "- ISO Code: " \o Str(lang.ISO639P3code),
     Macroarea |-> "- Macroarea: " \o Str(lang.Macroarea),
     Features |-> FeatureInfo(features, lang)]

\* the header count taken from the batch size asked for, not from the batch
CreateChunkContentBatchSize(batch, family_name, num) ==
    [chunk |-> "LINGUISTIC KNOWLEDGE GRAPH DATA - CHUNK " \o ToString(num) \o ":",
     family |-> "Family: " \o family_name,
     count |-> "Languages in this chunk: " \o ToString(batch_size),
     entries |-> [k \in DOMAIN batch |-> LangEntry(batch[k])],
     hint |-> "- Each " \o family_name \o " language BELONGS_TO "
                  \o family_name \o "Family"]

\* the chunk number read from the processor's counter, not from the argument
CreateChunkContentCounter(batch, family_name, num) ==
    [chunk |-> "LINGUISTIC KNOWLEDGE GRAPH DATA - CHUNK "
                   \o ToString(chunk_num) \o ":",
     family |-> "Family: " \o family_name,
     count |-> "Languages in this chunk: " \o ToString(Len(batch)),
     entries |-> [k \in DOMAIN batch |-> LangEntry(batch[k])],
     hint |-> "- Each " \o family_name \o " language BELONGS_TO "
                  \o family_name \o "Family"]

\* _create_chunk_content: the rendered text, by its lines: the header, one
\* entry per row of the batch, the first line of the relationship block
CreateChunkContent(batch, family_name, num) ==
    [chunk |-> "LINGUISTIC KNOWLEDGE GRAPH DATA - CHUNK " \o ToString(num) \o ":",
     family |-> "Family: " \o family_name,
     count |-> "Languages in this chunk: " \o ToString(Len(batch)),
     entries |-> [k \in DOMAIN batch |-> LangEntry(batch[k])],
     hint |-> "- Each " \o family_name \o " language BELONGS_TO "
                  \o family_name \o "Family"]

\* f"{n:03d}" for n below 1000
Pad3(n) ==
    LET digits == "0123456789"
    IN  SubSeq(digits, (n \div 100) + 1, (n \div 100) + 1)
            \o SubSeq(digits, ((n \div 10) % 10) + 1, ((n \div 10) % 10) + 1)
            \o SubSeq(digits, (n % 10) + 1, (n % 10) + 1)

\* f"{self.output_dir}/chunks/enhanced_chunk_{chunk_num:03d}.txt"
ChunkPath(n) == "output/chunks/enhanced_chunk_" \o Pad3(n) \o ".txt"

\* the lines written to enhanced_chunk_list.txt: f"{chunk_file}\n"
ManifestLines(files) == [k \in DOMAIN files |-> files[k] \o "\n"]

\* generate_chunks without language data: return []
GenerateChunksNoData ==
    /\ gpc = "start"
    /\ ~loaded
    /\ chunk_files' = <<>>
    /\ gpc' = "done"
    /\ UNCHANGED <<loaded, languages, features, batch_size, families, fam_idx, offset,
                   chunk_num, chunks, chunk_text, manifest, graphVars,
                   explorerVars, cli>>

\* generate_chunks up to the first family: groupby
GenerateChunksStart ==
    /\ gpc = "start"
    /\ loaded
    /\ families' = GroupBy(languages)
    /\ fam_idx' = 1
    /\ offset' = 0
    /\ chunk_num' = 1
    /\ chunks' = <<>>
    /\ chunk_files' = <<>>
    /\ gpc' = "family"
    /\ UNCHANGED <<loaded, languages, features, batch_size, chunk_text, manifest, graphVars,
                   explorerVars, cli>>

\* one iteration of the inner loop: cut, render and save one batch
GenerateChunksBatch ==
    /\ gpc = "family"
    /\ fam_idx <= Len(families)
    /\ offset < Len(families[fam_idx].rows)
    /\ LET family_name == FamilyLabel(families[fam_idx].key)
           batch == Iloc(families[fam_idx].rows, offset, batch_size)
       IN  /\ chunks' = Append(chunks, <<family_name, batch>>)
           /\ chunk_text' = [f \in DOMAIN chunk_text \cup {chunk_num} |->
                               IF f = chunk_num
                               THEN CreateChunkContent(batch, family_name, chunk_num)
                               ELSE chunk_text[f]]
    /\ chunk_files' = Append(chunk_files, ChunkPath(chunk_num))
    /\ chunk_num' = chunk_num + 1
    /\ offset' = offset + batch_size
    /\ UNCHANGED <<loaded, languages, features, batch_size, gpc, families, fam_idx, manifest,
                   graphVars,
                   explorerVars, cli>>

\* the inner loop is exhausted: next family group
GenerateChunksNextFamily ==
    /\ gpc = "family"
    /\ fam_idx <= Len(families)
    /\ offset >= Len(families[fam_idx].rows)
    /\ fam_idx' = fam_idx + 1
    /\ offset' = 0
    /\ UNCHANGED <<loaded, languages, features, batch_size, gpc, families, chunk_num, chunks,
                   chunk_files, chunk_text, manifest, graphVars,
                   explorerVars, cli>>

\* the outer loop is exhausted: write the chunk list and return chunk_files
GenerateChunksFinish ==
    /\ gpc = "family"
    /\ fam_idx > Len(families)
    /\ manifest' = ManifestLines(chunk_files)
    /\ gpc' = "done"
    /\ UNCHANGED <<loaded, languages, features, batch_size, families, fam_idx, offset,
                   chunk_num, chunks, chunk_files, chunk_text, graphVars,
                   explorerVars, cli>>

(***************************************************************************)
(* The graph store: what the Cypher statements of graph_builder.py do      *)
(***************************************************************************)
PropKeys == {"family", "subfamily", "genus", "macroarea", "iso_code",
             "country_id", "name"}

NoProps == [p \in PropKeys |-> Absent]

\* the properties named in upd, the others absent
Props(upd) == [p \in PropKeys |-> IF p \in DOMAIN upd THEN upd[p] ELSE Absent]

\* MATCH (n:label {id: id}): the numbers of the matching nodes
MatchNodes(ns, label, id) ==
    {k \in DOMAIN ns : label \in ns[k].labels /\ ns[k].id = id}

\* SET n.p = v for the properties present in upd, on the nodes ks
SetProps(ns, ks, upd) ==
    [k \in DOMAIN ns |->
        IF k \in ks
        THEN [ns[k] EXCEPT !.props =
                 [p \in PropKeys |-> IF upd[p] # Absent THEN upd[p] ELSE @[p]]]
        ELSE ns[k]]

\* CREATE in place of MERGE: a node is added whether or not one matches
MergeNodeCreate(ns, label, id) ==
    Append(ns, [labels |-> {label}, id |-> id, props |-> NoProps])

\* MERGE (n:label {id: id}): match, or create when nothing matches
MergeNode(ns, label, id) ==
    IF MatchNodes(ns, label, id) # {} THEN ns
    ELSE Append(ns, [labels |-> {label}, id |-> id, props |-> NoProps])

\* CREATE in place of MERGE: a relationship is added for every bound pair
MergeRelCreate(es, type, srcs, dsts) ==
    es (+) SetToBag({[type |-> type, src |-> a, dst |-> b] :
                        a \in srcs, b \in dsts})

\* MERGE (a)-[:type]->(b) for every bound pair: create the missing ones
MergeRel(es, type, srcs, dsts) ==
    es (+) SetToBag({[type |-> type, src |-> a, dst |-> b] :
                        a \in srcs, b \in dsts} \ BagToSet(es))

\* MATCH (n) DETACH DELETE n
EmptyStore == [nodes |-> <<>>, edges |-> EmptyBag]

(***************************************************************************)
(* The extraction service and _fix_entity_ids                              *)
(***************************************************************************)
\* str.lower() on the property values the extraction returns
Lower(v) ==
    CASE v = "Indonesia" -> "indonesia"
      [] v = "INDONESIAN Republic" -> "indonesian republic"
      [] v = "Austronesian" -> "austronesian"
      [] v = "Malayic" -> "malayic"
      [] OTHER -> v

\* 'indonesia' in text or 'indonesian' in text
MentionsIndonesia(text) ==
    text \in {"indonesia", "indonesian republic"}

\* any(prop in str(node.properties).lower() for prop in [...])
PropsMentionIndonesia(props) ==
    \E p \in PropKeys : props[p] # Absent /\ MentionsIndonesia(Lower(props[p]))

DocNode(id, type, upd) == [id |-> id, type |-> type, props |-> Props(upd)]

\* the graph documents the extraction service may return for a chunk
DocIndonesia ==
    [nodes |-> <<DocNode("Javanese", "Language",
                         [family |-> "Austronesian", country_id |-> "Indonesia"]),
                 DocNode("ID", "Country", [name |-> "Indonesia"])>>,
     relationships |-> <<[source |-> "Javanese", target |-> "ID",
                          type |-> "LOCATED_IN"]>>]

DocPlainID ==
    [nodes |-> <<DocNode("Javanese", "Language", [family |-> "Malayic"]),
                 DocNode("ID", "Country", <<>>)>>,
     relationships |-> <<[source |-> "Javanese", target |-> "ID",
                          type |-> "LOCATED_IN"]>>]

DocUpper ==
    [nodes |-> <<DocNode("ID", "Country", [name |-> "INDONESIAN Republic"]),
                 DocNode("French", "Language", [genus |-> "Malayic"])>>,
     relationships |-> <<>>]

DocEmpty == [nodes |-> <<>>, relationships |-> <<>>]

Docs == {DocIndonesia, DocPlainID, DocUpper, DocEmpty}

\* the property maps of the nodes with id 'ID' that get a hash-derived id
HashedProps ==
    {n.props : n \in {m \in UNION {Range(d.nodes) : d \in Docs} :
                          m.id = "ID" /\ ~PropsMentionIndonesia(m.props)}}

\* values of hash(): a signed machine integer
HashSamples == {-3, 20007}

HashMod == 10000

\* f'Entity_ID_{hash(str(node.properties)) % 10000}'
EntityId(props) == "Entity_ID_" \o ToString(hash_of[props] % HashMod)

\* the check without .lower(): the mention is looked up case-sensitively
FixNodeCaseSensitive(node) ==
    IF node.id = "ID"
    THEN IF \E p \in PropKeys : MentionsIndonesia(node.props[p])
         THEN [node EXCEPT !.id = "Indonesia_Country"]
         ELSE [node EXCEPT !.id = "ID"]
    ELSE node

\* _fix_entity_ids on one node
FixNode(node) ==
    IF node.id = "ID"
    THEN IF PropsMentionIndonesia(node.props)
         THEN [node EXCEPT !.id = "Indonesia_Country"]
         ELSE [node EXCEPT !.id = EntityId(node.props)]
    ELSE node

\* _fix_entity_ids on one graph document: the nodes of doc.nodes
FixEntityIds(doc) ==
    [doc EXCEPT !.nodes = [k \in DOMAIN doc.nodes |-> FixNode(doc.nodes[k])]]

(***************************************************************************)
(* graph.add_graph_documents(graph_documents, baseEntityLabel="Language",  *)
(* include_source=False): with a base entity label every node is merged on *)
(* the base label `__Entity__` and its id, its properties are set and its  *)
(* type is added as a label; a relationship merges its two end nodes the   *)
(* same way, by the ids the relationship carries, and is merged itself.    *)
(***************************************************************************)
BaseLabel == "__Entity__"

\* CALL apoc.create.addLabels(source, [row.type])
AddLabels(ns, ks, label) ==
    [k \in DOMAIN ns |->
        IF k \in ks THEN [ns[k] EXCEPT !.labels = @ \cup {label}] ELSE ns[k]]

\* the node import statement, for one node of the document
ImportNode(ns, n) ==
    LET merged == MergeNode(ns, BaseLabel, n.id)
        ks == MatchNodes(merged, BaseLabel, n.id)
    IN  AddLabels(SetProps(merged, ks, n.props), ks, n.type)

RECURSIVE ImportNodes(_, _)
ImportNodes(ns, dnodes) ==
    IF dnodes = <<>> THEN ns
    ELSE ImportNodes(ImportNode(ns, Head(dnodes)), Tail(dnodes))

\* the relationship import statement, for one relationship of the document
ImportRel(G, r) ==
    LET merged == MergeNode(MergeNode(G.nodes, BaseLabel, r.source),
                            BaseLabel, r.target)
    IN  [nodes |-> merged,
         edges |-> MergeRel(G.edges, r.type,
                            MatchNodes(merged, BaseLabel, r.source),
                            MatchNodes(merged, BaseLabel, r.target))]

RECURSIVE ImportRels(_, _)
ImportRels(G, rels) ==
    IF rels = <<>> THEN G
    ELSE ImportRels(ImportRel(G, Head(rels)), Tail(rels))

\* add_graph_documents; outcome "merge_error_nodes": the node statement
\* raises; "merge_error_rels": the relationship statement raises
AddGraphDocuments(G, doc, outcome) ==
    CASE outcome = "merge_error_nodes" -> G
      [] outcome = "merge_error_rels" ->
            [G EXCEPT !.nodes = ImportNodes(G.nodes, doc.nodes)]
      [] OTHER ->
            ImportRels([G EXCEPT !.nodes = ImportNodes(G.nodes, doc.nodes)],
                       doc.relationships)

(***************************************************************************)
(* GraphBuilder                                                            *)
(***************************************************************************)
NoGraph == "None"

Connected == "Neo4jGraph"

Store == [nodes |-> nodes, edges |-> edges]

\* the record of an operation that returned: its arguments, what failed,
\* its result, the size of the store, and whether it repeats the operation
\* before it (same operation, same arguments, same failures)
Op(name, files, pres, log, fail_row, result, totals, G) ==
    [op |-> name, files |-> files, preserve |-> pres, log |-> log,
     fail_row |-> fail_row, result |-> result, totals |-> totals,
     n_nodes |-> Len(G.nodes), n_edges |-> BagCardinality(G.edges),
     repeat |-> /\ last_op.op = name
                /\ last_op.files = files
                /\ last_op.preserve = pres
                /\ last_op.log = log
                /\ last_op.fail_row = fail_row
                /\ last_op.result = result]

\* connect_to_neo4j
ConnectToNeo4j(ok) ==
    /\ pc = "idle"
    /\ graph = NoGraph
    /\ graph' = IF ok THEN Connected ELSE graph
    /\ UNCHANGED <<batchVars, explorerVars, cli, transformer, nodes, edges, extraction, hash_of,
                   buildVars, last_op, ops_left>>

\* setup_llm_transformer
SetupLlmTransformer(ok) ==
    /\ pc = "idle"
    /\ transformer = NoGraph
    /\ transformer' = IF ok THEN "LLMGraphTransformer" ELSE transformer
    /\ UNCHANGED <<batchVars, explorerVars, cli, graph, nodes, edges, extraction, hash_of,
                   buildVars, last_op, ops_left>>

\* clear_graph that deletes nothing
ClearGraphKeep(G, ok) == G

\* clear_graph: the store after it, given whether its statements succeed
ClearGraph(G, ok) == IF graph # NoGraph /\ ok THEN EmptyStore ELSE G

\* build_from_chunks, not initialized: return 0, 0
BuildFromChunksRefused(files, pres) ==
    /\ pc = "idle"
    /\ ops_left > 0
    /\ graph = NoGraph \/ transformer = NoGraph
    /\ last_op' = Op("build", files, pres, <<>>, 0, FALSE, <<0, 0>>, Store)
    /\ ops_left' = ops_left - 1
    /\ UNCHANGED <<batchVars, explorerVars, cli, graph, transformer, nodes, edges, extraction,
                   hash_of, buildVars>>

\* build_from_chunks up to the chunk loop
BuildFromChunksStart(files, pres, clear_ok) ==
    /\ pc = "idle"
    /\ ops_left > 0
    /\ graph # NoGraph /\ transformer # NoGraph
    /\ pres => clear_ok
    /\ LET G == IF pres THEN Store ELSE ClearGraph(Store, clear_ok)
       IN  /\ nodes' = G.nodes
           /\ edges' = G.edges
    /\ build_files' = files
    /\ preserve' = pres
    /\ build_idx' = 1
    /\ total_nodes' = 0
    /\ total_relationships' = 0
    /\ pbar' = 0
    /\ build_log' = <<IF pres THEN "no_clear"
                       ELSE IF clear_ok THEN "clear_ok" ELSE "clear_error">>
    /\ attempts' = [k \in DOMAIN files |-> 0]
    /\ pc' = "build"
    /\ ops_left' = ops_left - 1
    /\ UNCHANGED <<batchVars, explorerVars, cli, graph, transformer, extraction, hash_of,
                   graph_documents, last_op>>

\* break in place of continue: a failure ends the loop
NextChunkIndexBreak(idx, outcome) ==
    IF outcome = "ok" THEN idx + 1 ELSE Len(build_files) + 1

\* continue: the loop goes on with the next chunk, whatever happened
NextChunkIndex(idx, outcome) == idx + 1

\* one iteration of the chunk loop
BuildChunk(outcome) ==
    /\ pc = "build"
    /\ build_idx <= Len(build_files)
    /\ LET chunk_file == build_files[build_idx]
           fixed == FixEntityIds([nodes |-> extraction[chunk_file].nodes,
                                  relationships |-> extraction[chunk_file].relationships,
                                  source |-> chunk_file])
           called == outcome # "read_error"
           converted == outcome \notin {"read_error", "extract_error"}
           merging == converted /\ fixed.nodes # <<>>
           G == IF merging THEN AddGraphDocuments(Store, fixed, outcome)
                ELSE Store
           done == outcome = "ok"
       IN  /\ outcome \in {"merge_error_nodes", "merge_error_rels"} => merging
           /\ nodes' = G.nodes
           /\ edges' = G.edges
           /\ graph_documents' = IF converted THEN <<fixed>> ELSE graph_documents
           /\ attempts' = [attempts EXCEPT ![build_idx] = @ + (IF called THEN 1 ELSE 0)]
           /\ total_nodes' = total_nodes +
                (IF done /\ merging THEN Len(fixed.nodes) ELSE 0)
           /\ total_relationships' = total_relationships +
                (IF done /\ merging THEN Len(fixed.relationships) ELSE 0)
           /\ pbar' = pbar + (IF done THEN 1 ELSE 0)
    /\ build_log' = Append(build_log, outcome)
    /\ build_idx' = NextChunkIndex(build_idx, outcome)
    /\ UNCHANGED <<batchVars, explorerVars, cli, graph, transformer, extraction, hash_of, pc,
                   build_files, preserve, last_op, ops_left>>

\* build_from_chunks after the loop: return total_nodes, total_relationships
BuildFromChunksReturn ==
    /\ pc = "build"
    /\ build_idx > Len(build_files)
    /\ pc' = "idle"
    /\ last_op' = Op("build", build_files, preserve, build_log, 0, TRUE,
                     <<total_nodes, total_relationships>>, Store)
    /\ UNCHANGED <<batchVars, explorerVars, cli, graph, transformer, nodes, edges, extraction,
                   hash_of, build_files, preserve, build_idx, total_nodes,
                   total_relationships, pbar, build_log, attempts,
                   graph_documents, ops_left>>

(***************************************************************************)
(* The direct CSV passes                                                   *)
(***************************************************************************)
\* data/countries.csv
CountriesCsv == <<[ID |-> "ID", Name |-> "Indonesia"],
                  [ID |-> "FR", Name |-> "France"]>>

\* the six SET clauses of the Language statements
LanguageProps(lang) ==
    Props([family |-> Str(lang.Family),
           subfamily |-> Str(lang.Subfamily),
           genus |-> Str(lang.Genus),
           macroarea |-> Str(lang.Macroarea),
           iso_code |-> Str(lang.ISO639P3code),
           country_id |-> Str(lang.Country_ID)])

\* MERGE (x:label {id: id}) WITH x MATCH (l:Language {id: name})
\* MERGE (l)-[:type]->(x)
MergeAndLink(G, label, id, name, type) ==
    LET merged == MergeNode(G.nodes, label, id)
    IN  [nodes |-> merged,
         edges |-> MergeRel(G.edges, type,
                            MatchNodes(merged, "Language", name),
                            MatchNodes(merged, label, id))]

\* complete_missing_languages: the statements for one missing language
CompleteRow(G, lang) ==
    LET name == Str(lang.Name)
        family == Str(lang.Family)
        country_id == Str(lang.Country_ID)
        merged == MergeNode(G.nodes, "Language", name)
        G1 == [G EXCEPT !.nodes =
                 SetProps(merged, MatchNodes(merged, "Language", name),
                          LanguageProps(lang))]
        G2 == IF NotNa(lang.Country_ID) /\ country_id # ""
              THEN MergeAndLink(G1, "Country", country_id, name, "LOCATED_IN")
              ELSE G1
    IN  IF family # "" /\ family # "Unknown"
        THEN MergeAndLink(G2, "Languagefamily", family \o "Family", name,
                          "BELONGS_TO")
        ELSE G2

\* the loop of complete_missing_languages from row k on; a failing statement
\* (row fail_row) raises out of the loop
RECURSIVE CompleteRows(_, _, _, _, _)
CompleteRows(G, df, k, missing, fail_row) ==
    IF k > Len(df) THEN G
    ELSE IF Str(df[k].Name) \notin missing
         THEN CompleteRows(G, df, k + 1, missing, fail_row)
         ELSE IF k = fail_row THEN G
              ELSE CompleteRows(CompleteRow(G, df[k]), df, k + 1, missing, fail_row)

\* existing_languages of complete_missing_languages
ExistingLanguages(ns) == {ns[k].id : k \in {j \in DOMAIN ns : "Language" \in ns[j].labels}}

MissingLanguages(ns, df) == {Str(df[k].Name) : k \in DOMAIN df} \ ExistingLanguages(ns)

\* complete_missing_languages
CompleteMissingLanguages(fail_row) ==
    /\ pc = "idle"
    /\ ops_left > 0
    /\ LET missing == MissingLanguages(nodes, languages)
           fails == /\ fail_row # 0
                    /\ Str(languages[fail_row].Name) \in missing
           G == IF graph = NoGraph THEN Store
                ELSE CompleteRows(Store, languages, 1, missing, fail_row)
       IN  /\ fail_row # 0 => graph # NoGraph /\ fails
           /\ nodes' = G.nodes
           /\ edges' = G.edges
           /\ last_op' = Op("complete", <<>>, TRUE, <<>>, fail_row,
                            graph # NoGraph /\ ~fails, <<0, 0>>, G)
    /\ ops_left' = ops_left - 1
    /\ UNCHANGED <<batchVars, explorerVars, cli, graph, transformer, extraction, hash_of, buildVars>>

\* MERGE (c:Country {id: ..., name: ...}) for every row of countries.csv
RECURSIVE CreateCountries(_, _)
CreateCountries(ns, cdf) ==
    IF cdf = <<>> THEN ns
    ELSE LET c == Head(cdf)
             found == {k \in MatchNodes(ns, "Country", Str(c.ID)) :
                          ns[k].props["name"] = Str(c.Name)}
         IN  CreateCountries(
                 IF found # {} THEN ns
                 ELSE Append(ns, [labels |-> {"Country"}, id |-> Str(c.ID),
                                  props |-> Props([name |-> Str(c.Name)])]),
                 Tail(cdf))

\* enrich_with_csv_data: the statements for one language row
EnrichRow(G, lang) ==
    LET name == Str(lang.Name)
        family == Str(lang.Family)
        country_id == Str(lang.Country_ID)
        ls == MatchNodes(G.nodes, "Language", name)
        G1 == [G EXCEPT !.nodes = SetProps(G.nodes, ls, LanguageProps(lang))]
        G2 == IF NotNa(lang.Country_ID)
              THEN [G1 EXCEPT !.edges =
                      MergeRel(G1.edges, "LOCATED_IN", ls,
                               MatchNodes(G1.nodes, "Country", country_id))]
              ELSE G1
    IN  IF NotNa(lang.Family) /\ family # "Unknown"
        THEN MergeAndLink(G2, "Languagefamily", family \o "Family", name,
                          "BELONGS_TO")
        ELSE G2

\* the language loop of enrich_with_csv_data from row k on; a failing
\* statement (row fail_row) is caught and the loop continues
RECURSIVE EnrichRows(_, _, _, _)
EnrichRows(G, df, k, fail_row) ==
    IF k > Len(df) THEN G
    ELSE EnrichRows(IF k = fail_row THEN G ELSE EnrichRow(G, df[k]),
                    df, k + 1, fail_row)

\* enrich_with_csv_data
EnrichWithCsvData(fail_row) ==
    /\ pc = "idle"
    /\ ops_left > 0
    /\ fail_row # 0 => graph # NoGraph
    /\ LET G == IF graph = NoGraph THEN Store
                ELSE EnrichRows([Store EXCEPT !.nodes =
                                    CreateCountries(nodes, CountriesCsv)],
                                languages, 1, fail_row)
       IN  /\ nodes' = G.nodes
           /\ edges' = G.edges
           /\ last_op' = Op("enrich", <<>>, TRUE, <<>>, fail_row, graph # NoGraph,
                            <<0, 0>>, G)
    /\ ops_left' = ops_left - 1
    /\ UNCHANGED <<batchVars, explorerVars, cli, graph, transformer, extraction, hash_of, buildVars>>

(***************************************************************************)
(* Text: str.lower(), str.upper(), str.strip(), `in` / CONTAINS            *)
(***************************************************************************)
UpperChars == "ABCDEFGHIJKLMNOPQRSTUVWXYZÁÉÍÓÚ"

LowerChars == "abcdefghijklmnopqrstuvwxyzáéíóú"

Whitespace == {" ", "\t", "\n"}

\* the character of `to` at the position c has in `from`, c when it has none
MapChar(c, from, to) ==
    IF \E i \in 1..Len(from) : SubSeq(from, i, i) = c
    THEN LET i == CHOOSE j \in 1..Len(from) : SubSeq(from, j, j) = c
         IN  SubSeq(to, i, i)
    ELSE c

\* str.lower() / toLower()
RECURSIVE StrLower(_)
StrLower(s) ==
    IF s = "" THEN ""
    ELSE MapChar(Head(s), UpperChars, LowerChars) \o StrLower(Tail(s))

\* str.upper()
RECURSIVE StrUpper(_)
StrUpper(s) ==
    IF s = "" THEN ""
    ELSE MapChar(Head(s), LowerChars, UpperChars) \o StrUpper(Tail(s))

RECURSIVE LStrip(_)
LStrip(s) == IF s # "" /\ Head(s) \in Whitespace THEN LStrip(Tail(s)) ELSE s

RECURSIVE RStrip(_)
RStrip(s) ==
    IF s # "" /\ SubSeq(s, Len(s), Len(s)) \in Whitespace
    THEN RStrip(SubSeq(s, 1, Len(s) - 1))
    ELSE s

\* str.strip()
StrStrip(s) == RStrip(LStrip(s))

\* hay CONTAINS needle
StrContains(hay, needle) ==
    \E i \in 1..(Len(hay) - Len(needle) + 1) :
        SubSeq(hay, i, i + Len(needle) - 1) = needle

(***************************************************************************)
(* build_from_enhanced_chunks                                              *)
(***************************************************************************)
\* os.path.exists(path) for the path of a chunk file
OnDisk(path) == \E n \in DOMAIN chunk_text : ChunkPath(n) = path

\* the orders in which glob.glob may list the files S
Orders(S) == {o \in [1..Cardinality(S) -> S] : Range(o) = S}

\* the lines of the list kept as read, the line terminator included
ReadChunkListNoStrip(lines) ==
    SelectSeq(lines, LAMBDA line : StrStrip(line) # "")

\* [line.strip() for line in f if line.strip()]
ReadChunkList(lines) ==
    LET kept == SelectSeq(lines, LAMBDA line : StrStrip(line) # "")
    IN  [k \in DOMAIN kept |-> StrStrip(kept[k])]

\* what glob.glob finds for 'output/chunks/enhanced_chunk_*.txt' (and for
\* 'output/chunks/*.txt': every file of output/chunks is a chunk file)
GlobChunks == {ChunkPath(n) : n \in DOMAIN chunk_text}

\* chunk_files of build_from_enhanced_chunks when it reaches the build: the
\* files of the chunk list that exist, else the files glob lists. An absent
\* enhanced_chunk_list.txt and an empty one both leave chunk_files empty;
\* nothing in the repository writes output/logs/chunk_list.txt
EnhancedChunkFiles(glob_order) ==
    LET listed == SelectSeq(ReadChunkList(manifest), OnDisk)
    IN  IF listed # <<>> THEN listed ELSE glob_order

\* build_from_enhanced_chunks, not initialized: return 0, 0
BuildFromEnhancedChunksRefused ==
    /\ pc = "idle"
    /\ ops_left > 0
    /\ graph = NoGraph \/ transformer = NoGraph
    /\ last_op' = Op("enhanced", <<>>, FALSE, <<>>, 0, FALSE, <<0, 0>>, Store)
    /\ ops_left' = ops_left - 1
    /\ UNCHANGED <<batchVars, explorerVars, cli, graph, transformer, nodes, edges, extraction,
                   hash_of, buildVars>>

\* build_from_enhanced_chunks up to the chunk loop of build_from_chunks, or
\* to its return when no chunk file is found; clear_ok, clear_again_ok:
\* whether the statements of its clear_graph and of the clear_graph of
\* build_from_chunks succeed
BuildFromEnhancedChunks(clear_ok, clear_again_ok, glob_order) ==
    /\ pc = "idle"
    /\ ops_left > 0
    /\ graph # NoGraph /\ transformer # NoGraph
    /\ glob_order \in Orders(GlobChunks)
    /\ LET found == EnhancedChunkFiles(glob_order)
           G1 == ClearGraph(Store, clear_ok)
           G == IF found = <<>> THEN G1 ELSE ClearGraph(G1, clear_again_ok)
           log == <<IF clear_ok \/ (found # <<>> /\ clear_again_ok)
                    THEN "clear_ok" ELSE "clear_error">>
       IN  /\ nodes' = G.nodes
           /\ edges' = G.edges
           /\ IF found = <<>>
              THEN /\ last_op' = Op("enhanced", <<>>, FALSE, log, 0, FALSE,
                                    <<0, 0>>, G)
                   /\ UNCHANGED buildVars
              ELSE /\ build_files' = found
                   /\ preserve' = FALSE
                   /\ build_idx' = 1
                   /\ total_nodes' = 0
                   /\ total_relationships' = 0
                   /\ pbar' = 0
                   /\ build_log' = log
                   /\ attempts' = [k \in DOMAIN found |-> 0]
                   /\ pc' = "build"
                   /\ UNCHANGED <<graph_documents, last_op>>
    /\ ops_left' = ops_left - 1
    /\ UNCHANGED <<batchVars, explorerVars, cli, graph, transformer, extraction, hash_of>>

\* a chunk file is removed from output/chunks between two operations
RemoveChunkFile(n) ==
    /\ gpc = "done" /\ pc = "idle"
    /\ n \in DOMAIN chunk_text
    /\ chunk_text' = [m \in DOMAIN chunk_text \ {n} |-> chunk_text[m]]
    /\ UNCHANGED <<loaded, languages, features, batch_size, gpc, families, fam_idx,
                   offset, chunk_num, chunks, chunk_files, manifest, graphVars,
                   explorerVars, cli>>

\* enhanced_chunk_list.txt is removed from output/logs between two operations
RemoveChunkList ==
    /\ gpc = "done" /\ pc = "idle"
    /\ manifest # <<>>
    /\ manifest' = <<>>
    /\ UNCHANGED <<loaded, languages, features, batch_size, gpc, families, fam_idx,
                   offset, chunk_num, chunks, chunk_files, chunk_text, graphVars,
                   explorerVars, cli>>

(***************************************************************************)
(* GraphExplorer (src/graph_explorer.py) and query_and_synthesize          *)
(* (src/retrieve_and_query.py)                                             *)
(***************************************************************************)
\* the Language nodes of the store
LanguageNodes(ns) == {k \in DOMAIN ns : "Language" \in ns[k].labels}

\* MATCH (l:Language) WHERE l.p = value RETURN l.id
PropEquals(ns, p, value) ==
    {ns[k].id : k \in {j \in LanguageNodes(ns) :
        ns[j].props[p] # Absent /\ ns[j].props[p] = value}}

\* MATCH (l:Language) WHERE LOWER(l.p) = LOWER(text) RETURN l.id
PropLowerEquals(ns, p, text) ==
    {ns[k].id : k \in {j \in LanguageNodes(ns) :
        ns[j].props[p] # Absent /\ StrLower(ns[j].props[p]) = StrLower(text)}}

\* MATCH (l:Language) WHERE LOWER(l.p) CONTAINS LOWER(text) RETURN l.id
PropContains(ns, p, text) ==
    {ns[k].id : k \in {j \in LanguageNodes(ns) :
        /\ ns[j].props[p] # Absent
        /\ StrContains(StrLower(ns[j].props[p]), StrLower(text))}}

\* query_cypher_silent: None without a connection or when the query raises;
\* None and the empty list are told apart by no caller, both are {} here
QueryCypherSilent(rows, raises) ==
    IF explorer_graph = NoGraph \/ raises THEN {} ELSE rows

\* the record of a query call
Call(fn, arg, mapped, ran, shown, not_found, returned, raised, fails) ==
    [fn |-> fn, arg |-> arg, mapped |-> mapped, ran |-> ran, shown |-> shown,
     not_found |-> not_found, returned |-> returned, raised |-> raised,
     fails |-> fails]

NoCall == Call("none", "", "", <<>>, <<>>, FALSE, "None", FALSE, {})

\* GraphExplorer.connect_to_neo4j
ExplorerConnect(ok) ==
    /\ call = NoCall
    /\ explorer_graph = NoGraph
    /\ explorer_graph' = IF ok THEN Connected ELSE explorer_graph
    /\ UNCHANGED <<batchVars, graphVars, cli, qa_chain, call>>

\* GraphExplorer.setup_qa_chain
SetupQaChain(ok) ==
    /\ call = NoCall
    /\ qa_chain = NoGraph
    /\ qa_chain' = IF ok THEN "GraphCypherQAChain" ELSE qa_chain
    /\ UNCHANGED <<batchVars, graphVars, cli, explorer_graph, call>>

\* try: body except Exception: handler -- the value of the statement
Try(body, handler) == IF body.raised THEN handler ELSE body

Return(value) == [returned |-> value, raised |-> FALSE]

Raise == [returned |-> "None", raised |-> TRUE]

\* query_natural_language without its try: the exception leaves the method
QueryNaturalLanguageNoTry(g, chain, outcome) ==
    IF g = NoGraph THEN Return("None")
    ELSE IF chain = NoGraph THEN Return("None")
         ELSE IF outcome # "ok" THEN Raise
              ELSE Return("dict")

\* query_natural_language; outcome: what self.qa_chain.invoke does
QueryNaturalLanguageResult(g, chain, outcome) ==
    IF g = NoGraph THEN Return("None")
    ELSE Try(IF chain = NoGraph THEN Return("None")
             ELSE IF outcome # "ok" THEN Raise
                  ELSE Return("dict"),
             Return("None"))

\* query_and_synthesize(query, cypher_chain); a missing chain raises
\* AttributeError at cypher_chain.invoke, inside the try
QueryAndSynthesizeResult(chain, outcome) ==
    Try(IF chain = NoGraph THEN Raise
        ELSE IF outcome # "ok" THEN Raise
             ELSE Return("answer"),
        Return("str"))

ChainOutcomes == {"ok", "llm_error", "query_error"}

QueryNaturalLanguage(question, outcome) ==
    /\ call = NoCall
    /\ outcome # "ok" => explorer_graph # NoGraph /\ qa_chain # NoGraph
    /\ LET r == QueryNaturalLanguageResult(explorer_graph, qa_chain, outcome)
       IN  call' = Call("query_natural_language", question, "",
                        IF explorer_graph # NoGraph /\ qa_chain # NoGraph
                        THEN <<outcome>> ELSE <<>>,
                        <<>>, FALSE, r.returned, r.raised, {})
    /\ UNCHANGED <<batchVars, graphVars, cli, explorer_graph, qa_chain>>

QueryAndSynthesize(question, cypher_chain, outcome) ==
    /\ call = NoCall
    /\ outcome # "ok" => cypher_chain # NoGraph
    /\ LET r == QueryAndSynthesizeResult(cypher_chain, outcome)
       IN  call' = Call("query_and_synthesize", question, "",
                        IF cypher_chain # NoGraph THEN <<outcome>> ELSE <<>>,
                        <<>>, FALSE, r.returned, r.raised, {})
    /\ UNCHANGED <<batchVars, graphVars, cli, explorer_graph, qa_chain>>

\* one strategy of a handler: its name and the rows its query returned
Strategy(name, rows) == [strategy |-> name, rows |-> rows]

\* the strategy names of the first k queries
Names(qs, k) == [j \in 1..k |-> qs[j].strategy]

\* for query in queries: the first one with a non-empty result, 0 if none
FirstNonEmpty(qs) ==
    IF \E k \in DOMAIN qs : qs[k].rows # {}
    THEN CHOOSE k \in DOMAIN qs :
            /\ qs[k].rows # {}
            /\ \A j \in 1..(k - 1) : qs[j].rows = {}
    ELSE 0

\* simple_queries of _handle_geographic_query, in the order of the list
simple_queries(location, fails) ==
    <<Strategy("country_contains",
               QueryCypherSilent(PropContains(nodes, "country_id", location),
                                 "country_contains" \in fails)),
      Strategy("country_upper",
               QueryCypherSilent(PropEquals(nodes, "country_id", StrUpper(location)),
                                 "country_upper" \in fails)),
      Strategy("country_exact",
               QueryCypherSilent(PropEquals(nodes, "country_id", location),
                                 "country_exact" \in fails))>>

\* _handle_geographic_query; fails: the queries that raise; llm_raises,
\* llm_rows: what self.qa_chain.invoke does and the context rows of its result
HandleGeographicQueryResult(location, fails, llm_raises, llm_rows) ==
    LET macro == Strategy("macroarea",
                     QueryCypherSilent(PropLowerEquals(nodes, "macroarea", location),
                                       "macroarea" \in fails))
        llm_ran == qa_chain # NoGraph
        llm == Strategy("llm", IF llm_ran /\ ~llm_raises THEN llm_rows ELSE {})
        first == <<"macroarea">> \o (IF llm_ran THEN <<"llm">> ELSE <<>>)
        qs == simple_queries(location, fails)
        k == FirstNonEmpty(qs)
    IN  IF macro.rows # {}
        THEN Call("geographic", location, "", <<"macroarea">>, <<macro>>,
                  FALSE, "None", FALSE, fails)
        ELSE IF llm.rows # {}
        THEN Call("geographic", location, "", first, <<llm>>,
                  FALSE, "None", FALSE, fails)
        ELSE IF k # 0
        THEN Call("geographic", location, "", first \o Names(qs, k), <<qs[k]>>,
                  FALSE, "None", FALSE, fails)
        ELSE Call("geographic", location, "", first \o Names(qs, Len(qs)), <<>>,
                  TRUE, "None", FALSE, fails)

HandleGeographicQuery(location, fails, llm_raises, llm_rows) ==
    /\ call = NoCall
    /\ fails # {} => explorer_graph # NoGraph
    /\ (llm_raises \/ llm_rows # {}) => qa_chain # NoGraph
    /\ llm_raises => llm_rows = {}
    /\ call' = HandleGeographicQueryResult(location, fails, llm_raises, llm_rows)
    /\ UNCHANGED <<batchVars, graphVars, cli, explorer_graph, qa_chain>>

\* family_mappings: the items of the dictionary
family_mappings_items ==
    {<<"indoeuropeo", "Indo-European">>, <<"indoeuropean", "Indo-European">>,
     <<"indo-european", "Indo-European">>, <<"indoeuropea", "Indo-European">>,
     <<"romance", "Romance">>, <<"romances", "Romance">>,
     <<"románico", "Romance">>, <<"románicas", "Romance">>,
     <<"germanic", "Germanic">>, <<"germanico", "Germanic">>,
     <<"germánico", "Germanic">>, <<"germánicas", "Germanic">>,
     <<"nigercongoese", "Niger-Congo">>, <<"nigercongo", "Niger-Congo">>,
     <<"niger-congo", "Niger-Congo">>,
     <<"afroasiatic", "Afro-Asiatic">>, <<"afro-asiatic", "Afro-Asiatic">>,
     <<"afroasiático", "Afro-Asiatic">>,
     <<"sinotibetan", "Sino-Tibetan">>, <<"sino-tibetan", "Sino-Tibetan">>,
     <<"sino-tibetano", "Sino-Tibetan">>,
     <<"austronesian", "Austronesian">>, <<"austronesio", "Austronesian">>,
     <<"austronésico", "Austronesian">>,
     <<"semitic", "Semitic">>, <<"semítico", "Semitic">>,
     <<"bantu", "Bantu">>, <<"bantú", "Bantu">>,
     <<"celtic", "Celtic">>, <<"céltico", "Celtic">>,
     <<"slavic", "Slavic">>, <<"eslavo", "Slavic">>}

\* the dictionary without the keys that spell the canonical names
family_mappings_aliases_only ==
    LET items == {p \in family_mappings_items : p[1] # StrLower(p[2])}
    IN  [key \in {p[1] : p \in items} |->
            (CHOOSE p \in items : p[1] = key)[2]]

\* family_mappings
family_mappings ==
    [key \in {p[1] : p \in family_mappings_items} |->
        (CHOOSE p \in family_mappings_items : p[1] = key)[2]]

\* family_name.strip() alone: the text is not lowercased
FamilyLowerNoLower(family_name) == StrStrip(family_name)

\* family_lower = family_name.lower().strip()
FamilyLower(family_name) == StrStrip(StrLower(family_name))

\* the mapped name of a query text, "" when the text is no key
MappedName(family_name) ==
    IF FamilyLower(family_name) \in DOMAIN family_mappings
    THEN family_mappings[FamilyLower(family_name)]
    ELSE ""

\* the two searches with the mapped name: genus first, then family
mapped_queries(mapped_name, fails) ==
    <<Strategy("mapped_genus",
               QueryCypherSilent(PropEquals(nodes, "genus", mapped_name),
                                 "mapped_genus" \in fails)),
      Strategy("mapped_family",
               QueryCypherSilent(PropEquals(nodes, "family", mapped_name),
                                 "mapped_family" \in fails))>>

\* the two containment searches made with the mapped name when the text is
\* a key of the alias table
flexible_queries_mapped(family_name, fails) ==
    LET text == IF MappedName(family_name) # "" THEN MappedName(family_name)
                ELSE family_name
    IN  <<Strategy("family_contains",
                   QueryCypherSilent(PropContains(nodes, "family", text),
                                     "family_contains" \in fails)),
          Strategy("genus_contains",
                   QueryCypherSilent(PropContains(nodes, "genus", text),
                                     "genus_contains" \in fails))>>

\* the two searches with the original text: family first, then genus
flexible_queries(family_name, fails) ==
    <<Strategy("family_contains",
               QueryCypherSilent(PropContains(nodes, "family", family_name),
                                 "family_contains" \in fails)),
      Strategy("genus_contains",
               QueryCypherSilent(PropContains(nodes, "genus", family_name),
                                 "genus_contains" \in fails))>>

\* the handler without the return after a mapped result is shown
HandleFamilyQueryNoReturn(family_name, fails) ==
    LET mapped_name == MappedName(family_name)
        ms == IF mapped_name # "" THEN mapped_queries(mapped_name, fails) ELSE <<>>
        m == FirstNonEmpty(ms)
        fs == flexible_queries(family_name, fails)
        f == FirstNonEmpty(fs)
        mran == IF m # 0 THEN Names(ms, m) ELSE Names(ms, Len(ms))
        mshown == IF m # 0 THEN <<ms[m]>> ELSE <<>>
    IN  IF f # 0
        THEN Call("family", family_name, mapped_name, mran \o Names(fs, f),
                  mshown \o <<fs[f]>>, FALSE, "None", FALSE, fails)
        ELSE Call("family", family_name, mapped_name, mran \o Names(fs, Len(fs)),
                  mshown, TRUE, "None", FALSE, fails)

\* _handle_family_query; fails: the queries that raise
HandleFamilyQueryResult(family_name, fails) ==
    LET mapped_name == MappedName(family_name)
        ms == IF mapped_name # "" THEN mapped_queries(mapped_name, fails) ELSE <<>>
        m == FirstNonEmpty(ms)
        fs == flexible_queries(family_name, fails)
        f == FirstNonEmpty(fs)
    IN  IF m # 0
        THEN Call("family", family_name, mapped_name, Names(ms, m), <<ms[m]>>,
                  FALSE, "None", FALSE, fails)
        ELSE IF f # 0
        THEN Call("family", family_name, mapped_name,
                  Names(ms, Len(ms)) \o Names(fs, f), <<fs[f]>>,
                  FALSE, "None", FALSE, fails)
        ELSE Call("family", family_name, mapped_name,
                  Names(ms, Len(ms)) \o Names(fs, Len(fs)), <<>>,
                  TRUE, "None", FALSE, fails)

HandleFamilyQuery(family_name, fails) ==
    /\ call = NoCall
    /\ fails # {} => explorer_graph # NoGraph
    /\ call' = HandleFamilyQueryResult(family_name, fails)
    /\ UNCHANGED <<batchVars, graphVars, cli, explorer_graph, qa_chain>>

\* query_cypher_silent for a query that returns one row with a count: the
\* one-row list, or None (here <<>>) without a connection or when the query
\* raises
QueryCount(count, raises) ==
    IF explorer_graph = NoGraph \/ raises THEN <<>> ELSE <<count>>

\* MATCH (l:Language) WHERE l.p IS NOT NULL [AND l.p <> x for x in excluded]
\* RETURN l.p, count(l): the rows as a set (rows with equal counts come in
\* no fixed order; the LIMIT of the queries is above MaxLanguages + 1)
GroupCounts(ns, p, excluded) ==
    {<<v, Cardinality({k \in LanguageNodes(ns) : ns[k].props[p] = v})>> :
        v \in {ns[k].props[p] : k \in LanguageNodes(ns)}
                \ ({Absent} \cup excluded)}

\* MATCH (l:Language) WHERE l.p IS NOT NULL AND l.p <> 'nan' RETURN count(l)
CoverageCount(ns, p) ==
    Cardinality({k \in LanguageNodes(ns) :
                    ns[k].props[p] # Absent /\ ns[k].props[p] # "nan"})

\* the three statements of coverage_data, in list order; no statement of
\* the builder sets latitude or longitude
coverage_data(fails) ==
    <<Strategy("coverage_country",
               QueryCount(CoverageCount(nodes, "country_id"),
                          "coverage_country" \in fails)),
      Strategy("coverage_family",
               QueryCount(CoverageCount(nodes, "family"),
                          "coverage_family" \in fails)),
      Strategy("coverage_coordinates",
               QueryCount(0, "coverage_coordinates" \in fails))>>

\* (count / total_languages) * 100 as printed with one decimal, in tenths
Percentage(count, total_languages) ==
    (count * 2000 + total_languages) \div (2 * total_languages)

\* the coverage lines printed from item k on
RECURSIVE CoverageLines(_, _, _)
CoverageLines(cov, k, total_languages) ==
    IF k > Len(cov) \/ (cov[k].rows # <<>> /\ total_languages = 0) THEN <<>>
    ELSE (IF cov[k].rows = <<>> THEN <<>>
          ELSE <<Strategy(cov[k].strategy,
                          <<cov[k].rows[1],
                            Percentage(cov[k].rows[1], total_languages)>>)>>)
         \o CoverageLines(cov, k + 1, total_languages)

\* the first coverage item whose division raises ZeroDivisionError, 0 if none
FirstZeroDivision(cov, total_languages) ==
    IF total_languages # 0 \/ \A k \in DOMAIN cov : cov[k].rows = <<>> THEN 0
    ELSE CHOOSE k \in DOMAIN cov :
            /\ cov[k].rows # <<>>
            /\ \A j \in 1..(k - 1) : cov[j].rows = <<>>

\* show_all_statistics; fails: the queries that raise
ShowAllStatisticsResult(fails) ==
    LET result == QueryCount(Cardinality(LanguageNodes(nodes)), "total" \in fails)
        total_languages == IF result # <<>> THEN result[1] ELSE 0
        regions == QueryCypherSilent(GroupCounts(nodes, "macroarea", {}),
                                     "regions" \in fails)
        largest == QueryCypherSilent(GroupCounts(nodes, "family", {"nan"}),
                                     "families" \in fails)
        cov == coverage_data(fails)
        z == FirstZeroDivision(cov, total_languages)
    IN  Call("statistics", "", "",
             <<"total", "regions", "families">>
                 \o Names(cov, IF z # 0 THEN z ELSE Len(cov)),
             <<Strategy("total", total_languages),
               Strategy("regions", regions),
               Strategy("families", largest)>>
                 \o CoverageLines(cov, 1, total_languages),
             FALSE, "None", z # 0, fails)

ShowAllStatistics(fails) ==
    /\ call = NoCall
    /\ fails # {} => explorer_graph # NoGraph
    /\ call' = ShowAllStatisticsResult(fails)
    /\ UNCHANGED <<batchVars, graphVars, cli, explorer_graph, qa_chain>>

\* the keys of the queries dictionary of get_graph_overview, in its order
overview_keys ==
    <<"total_languages", "total_countries", "total_families", "top_families",
      "countries_with_most_languages">>

\* MATCH (l:Language)-[:LOCATED_IN]->(c:Country)
\* RETURN c.name, count(l): the rows as a set
CountryCounts(ns, es) ==
    LET located == {e \in BagToSet(es) :
                       /\ e.type = "LOCATED_IN"
                       /\ "Language" \in ns[e.src].labels
                       /\ "Country" \in ns[e.dst].labels}
    IN  {<<name, Cardinality({e \in located : ns[e.dst].props["name"] = name})>> :
            name \in {ns[e.dst].props["name"] : e \in located}}

\* self.graph.query(query) for the query of one key
OverviewQuery(key) ==
    CASE key = "total_languages" -> <<Cardinality(LanguageNodes(nodes))>>
      [] key = "total_countries" ->
            <<Cardinality({k \in DOMAIN nodes : "Country" \in nodes[k].labels})>>
      [] key = "total_families" ->
            <<Cardinality({nodes[k].props["family"] : k \in LanguageNodes(nodes)}
                              \ {Absent})>>
      [] key = "top_families" -> GroupCounts(nodes, "family", {""})
      [] key = "countries_with_most_languages" -> CountryCounts(nodes, edges)

\* the overview dictionary after the loop: the result of each query, or the
\* error text when the query raised or there is no connection
Overview(fails) ==
    [k \in DOMAIN overview_keys |->
        Strategy(overview_keys[k],
                 IF explorer_graph = NoGraph \/ overview_keys[k] \in fails
                 THEN "Error"
                 ELSE OverviewQuery(overview_keys[k]))]

\* get_graph_overview; fails: the queries that raise. The function ends
\* after the loop without a return statement: its value is None
GetGraphOverview(fails) ==
    /\ call = NoCall
    /\ fails # {} => explorer_graph # NoGraph
    /\ call' = Call("overview", "", "", overview_keys, Overview(fails), FALSE,
                    "None", FALSE, fails)
    /\ UNCHANGED <<batchVars, graphVars, cli, explorer_graph, qa_chain>>

(***************************************************************************)
(* The command line (src/main.py) and run_sample_queries                   *)
(* (src/retrieve_and_query.py)                                             *)
(***************************************************************************)
\* one run of main.py. built: a build of the knowledge graph ran;
\* cypher_chain: what setup_rag_system returned; asked: the queries
\* answered; demo_ran: run_sample_queries was called; input_error: input()
\* raised; exit_code: the argument of sys.exit, -1 while running
Run(mode, at, built, cypher_chain, asked, demo_ran, input_error, exit_code) ==
    [mode |-> mode, pc |-> at, built |-> built, cypher_chain |-> cypher_chain,
     asked |-> asked, demo_ran |-> demo_ran, input_error |-> input_error,
     exit_code |-> exit_code]

NoRun == Run("none", "start", FALSE, NoGraph, 0, FALSE, FALSE, -1)

\* the number of sample queries of run_sample_queries
SampleQueries == 5

\* hasattr(graph_builder, 'build_knowledge_graph'): graph_builder.py defines
\* the class GraphBuilder and the function main, nothing else
HasBuildKnowledgeGraph == FALSE

\* sys.exit(0 if success else 1)
ExitCode(success) == IF success THEN 0 ELSE 1

\* main: parse the arguments and take the branch of the mode
Main(mode) ==
    /\ cli.pc = "start"
    /\ cli' = [cli EXCEPT !.mode = mode,
                          !.pc = IF mode \in {"build", "full"}
                                 THEN "build_graph" ELSE "run_queries"]
    /\ UNCHANGED <<batchVars, graphVars, explorerVars>>

\* build_graph and what main does with its value; import_outcome: what
\* `import graph_builder` does, built_ok: what build_knowledge_graph would
\* return if the module had it. Importing the module defines the class and
\* runs no statement on the graph store
BuildGraph(import_outcome, built_ok) ==
    /\ cli.pc = "build_graph"
    /\ built_ok => HasBuildKnowledgeGraph
    /\ LET called == import_outcome = "ok" /\ HasBuildKnowledgeGraph
           success == IF import_outcome # "ok" THEN FALSE
                      ELSE IF HasBuildKnowledgeGraph THEN built_ok
                      ELSE TRUE
       IN  cli' = [cli EXCEPT
                     !.built = called /\ built_ok,
                     !.pc = IF cli.mode = "full" /\ success
                            THEN "run_queries" ELSE "exit",
                     !.exit_code = IF cli.mode = "full" /\ success
                                   THEN @ ELSE ExitCode(success)]
    /\ UNCHANGED <<batchVars, graphVars, explorerVars>>

\* run_queries up to the import of retrieve_and_query, which creates the
\* LLM client and the graph connection at module level
RunQueriesImport(import_outcome) ==
    /\ cli.pc = "run_queries"
    /\ cli' = IF import_outcome = "ok"
              THEN [cli EXCEPT !.pc = "setup",
                               !.demo_ran = cli.mode # "query"]
              ELSE [cli EXCEPT !.pc = "exit", !.exit_code = ExitCode(FALSE)]
    /\ UNCHANGED <<batchVars, graphVars, explorerVars>>

\* setup_rag_system, called by run_queries (interactive) or by
\* run_sample_queries; when it returns None run_queries returns False,
\* run_sample_queries returns and run_queries returns True
SetupRagSystem(ok) ==
    /\ cli.pc = "setup"
    /\ cli' = IF ok
              THEN [cli EXCEPT !.cypher_chain = "GraphCypherQAChain",
                               !.pc = IF cli.mode = "query" THEN "loop"
                                      ELSE "sample"]
              ELSE [cli EXCEPT !.pc = "exit",
                               !.exit_code = ExitCode(cli.mode # "query")]
    /\ UNCHANGED <<batchVars, graphVars, explorerVars>>

\* one sample query of run_sample_queries; query_and_synthesize returns a
\* text whatever the chain does, so the loop goes on
SampleQuery(outcome) ==
    /\ cli.pc = "sample"
    /\ cli.asked < SampleQueries
    /\ ~QueryAndSynthesizeResult(cli.cypher_chain, outcome).raised
    /\ cli' = [cli EXCEPT !.asked = @ + 1]
    /\ UNCHANGED <<batchVars, graphVars, explorerVars>>

\* run_sample_queries returns; run_queries returns True
SampleQueriesReturn ==
    /\ cli.pc = "sample"
    /\ cli.asked = SampleQueries
    /\ cli' = [cli EXCEPT !.pc = "exit", !.exit_code = ExitCode(TRUE)]
    /\ UNCHANGED <<batchVars, graphVars, explorerVars>>

\* the interactive loop: a question is answered by query_and_synthesize
AskQuestion(outcome) ==
    /\ cli.pc = "loop"
    /\ cli.asked < MaxQuestions
    /\ ~QueryAndSynthesizeResult(cli.cypher_chain, outcome).raised
    /\ cli' = [cli EXCEPT !.asked = @ + 1]
    /\ UNCHANGED <<batchVars, graphVars, explorerVars>>

\* the interactive loop: 'quit' or KeyboardInterrupt; run_queries returns
\* True
QuitLoop ==
    /\ cli.pc = "loop"
    /\ cli' = [cli EXCEPT !.pc = "exit", !.exit_code = ExitCode(TRUE)]
    /\ UNCHANGED <<batchVars, graphVars, explorerVars>>

\* the interactive loop: input() raises (end of input); the outer handler
\* of run_queries returns False
InputError ==
    /\ cli.pc = "loop"
    /\ cli' = [cli EXCEPT !.pc = "exit", !.input_error = TRUE,
                          !.exit_code = ExitCode(FALSE)]
    /\ UNCHANGED <<batchVars, graphVars, explorerVars>>

(***************************************************************************)
(* Specifications                                                          *)
(***************************************************************************)
\* the chunk files a build is given
ChunkFileNames == {1, 2}

BuildFileLists == {<<1>>, <<1, 2>>}

ChunkOutcomes == {"ok", "read_error", "extract_error", "merge_error_nodes",
                  "merge_error_rels"}

\* what the extraction service may return for the two chunk files
Extractions ==
    {e \in [ChunkFileNames -> Docs] :
        e[1] \in {DocIndonesia, DocPlainID} /\ e[2] \in {DocUpper, DocEmpty}}

\* the language tables of the graph specification
GraphTables ==
    {<<MkRow("Javanese", "Austronesian", "ID"), MkRow("French", NaN, NaN)>>,
     <<MkRow("Javanese", NaN, "ID"), MkRow("French", "Indo-European", "FR")>>}

\* the language tables of the batcher specification
BatchTables ==
    UNION {TablesOfLen(n, Range(FamilyOrder) \cup {NaN}, CountryCodes) :
              n \in 0..MaxRows}

InitBatcher ==
    /\ gpc = "start"
    /\ families = <<>>
    /\ fam_idx = 0
    /\ offset = 0
    /\ chunk_num = 0
    /\ chunks = <<>>
    /\ chunk_files = <<>>
    /\ chunk_text = <<>>
    /\ manifest = <<>>

InitBuilder ==
    /\ graph = NoGraph
    /\ transformer = NoGraph
    /\ nodes = <<>>
    /\ edges = EmptyBag
    /\ pc = "idle"
    /\ build_files = <<>>
    /\ preserve = FALSE
    /\ build_idx = 0
    /\ total_nodes = 0
    /\ total_relationships = 0
    /\ pbar = 0
    /\ build_log = <<>>
    /\ attempts = <<>>
    /\ graph_documents = <<>>
    /\ last_op = [op |-> "none", files |-> <<>>, preserve |-> FALSE,
                  log |-> <<>>, fail_row |-> 0, result |-> FALSE,
                  totals |-> <<0, 0>>, n_nodes |-> 0, n_edges |-> 0,
                  repeat |-> FALSE]

InitExplorer ==
    /\ explorer_graph = NoGraph
    /\ qa_chain = NoGraph
    /\ call = NoCall

\* self.data without the feature tables
NoFeatures == [tables |-> {}, values |-> <<>>, codes |-> <<>>]

\* the graph builder, on a loaded language table
Init ==
    /\ loaded = TRUE
    /\ languages \in GraphTables
    /\ features = NoFeatures
    /\ InitExplorer
    /\ cli = NoRun
    /\ batch_size = 1
    /\ InitBatcher
    /\ InitBuilder
    /\ ops_left = MaxOps
    /\ extraction \in Extractions
    /\ hash_of \in [HashedProps -> HashSamples]

Next ==
    \/ \E ok \in BOOLEAN : ConnectToNeo4j(ok)
    \/ \E ok \in BOOLEAN : SetupLlmTransformer(ok)
    \/ \E files \in BuildFileLists, pres \in BOOLEAN :
          BuildFromChunksRefused(files, pres)
    \/ \E files \in BuildFileLists, pres \in BOOLEAN, clear_ok \in BOOLEAN :
          BuildFromChunksStart(files, pres, clear_ok)
    \/ \E outcome \in ChunkOutcomes : BuildChunk(outcome)
    \/ BuildFromChunksReturn
    \/ \E fail_row \in 0..Len(languages) : CompleteMissingLanguages(fail_row)
    \/ \E fail_row \in 0..Len(languages) : EnrichWithCsvData(fail_row)

Spec == Init /\ [][Next]_vars

\* the direct CSV passes alone, on an empty graph store
CsvTables ==
    UNION {TablesOfLen(n, {"Austronesian", NaN}, {"ID", NaN}) : n \in 1..MaxCsvRows}

InitCsv ==
    /\ loaded = TRUE
    /\ languages \in CsvTables
    /\ features = NoFeatures
    /\ InitExplorer
    /\ cli = NoRun
    /\ batch_size = 1
    /\ InitBatcher
    /\ InitBuilder
    /\ ops_left = MaxCsvOps
    /\ extraction = [f \in ChunkFileNames |-> DocEmpty]
    /\ hash_of = [p \in HashedProps |-> 0]

NextCsv ==
    \/ \E ok \in BOOLEAN : ConnectToNeo4j(ok)
    \/ \E fail_row \in 0..Len(languages) : CompleteMissingLanguages(fail_row)
    \/ \E fail_row \in 0..Len(languages) : EnrichWithCsvData(fail_row)

SpecCsv == InitCsv /\ [][NextCsv]_vars

\* generate_chunks, on every language table and batch size
InitBatch ==
    /\ loaded \in BOOLEAN
    /\ languages \in IF loaded THEN BatchTables ELSE {<<>>}
    /\ features = NoFeatures
    /\ InitExplorer
    /\ cli = NoRun
    /\ batch_size \in 1..MaxBatch
    /\ InitBatcher
    /\ InitBuilder
    /\ ops_left = 0
    /\ extraction = [f \in ChunkFileNames |-> DocEmpty]
    /\ hash_of = [p \in HashedProps |-> 0]

NextBatch ==
    \/ GenerateChunksNoData
    \/ GenerateChunksStart
    \/ GenerateChunksBatch
    \/ GenerateChunksNextFamily
    \/ GenerateChunksFinish

SpecBatch == InitBatch /\ [][NextBatch]_vars

\* the language tables of the enhanced build: one family, or no family
EnhancedTables ==
    UNION {TablesOfLen(n, {"Austronesian", NaN}, {"ID"}) : n \in 0..MaxEnhancedRows}

\* the stores an enhanced build may find: empty, or written by an earlier
\* complete_missing_languages
EnhancedStores ==
    {EmptyStore,
     CompleteRows(EmptyStore, <<MkRow("Basque", NaN, "FR")>>, 1, {"Basque"}, 0)}

\* generate_chunks, then the builder on the files it left
InitEnhanced ==
    /\ loaded \in BOOLEAN
    /\ languages \in IF loaded THEN EnhancedTables ELSE {<<>>}
    /\ features = NoFeatures
    /\ InitExplorer
    /\ cli = NoRun
    /\ batch_size \in 1..MaxEnhancedBatch
    /\ InitBatcher
    /\ graph = NoGraph
    /\ transformer = NoGraph
    /\ \E G \in EnhancedStores : nodes = G.nodes /\ edges = G.edges
    /\ pc = "idle"
    /\ build_files = <<>>
    /\ preserve = FALSE
    /\ build_idx = 0
    /\ total_nodes = 0
    /\ total_relationships = 0
    /\ pbar = 0
    /\ build_log = <<>>
    /\ attempts = <<>>
    /\ graph_documents = <<>>
    /\ last_op = [op |-> "none", files |-> <<>>, preserve |-> FALSE,
                  log |-> <<>>, fail_row |-> 0, result |-> FALSE,
                  totals |-> <<0, 0>>, n_nodes |-> 0, n_edges |-> 0,
                  repeat |-> FALSE]
    /\ ops_left = MaxEnhancedOps
    /\ extraction = [f \in {ChunkPath(n) : n \in 1..(MaxEnhancedRows + 1)} |->
                        DocPlainID]
    /\ hash_of = [p \in HashedProps |-> 0]

\* the pipeline is sequential: the builder runs after generate_chunks
\* returned
NextEnhanced ==
    \/ GenerateChunksNoData
    \/ GenerateChunksStart
    \/ GenerateChunksBatch
    \/ GenerateChunksNextFamily
    \/ GenerateChunksFinish
    \/ gpc = "done" /\ \E ok \in BOOLEAN : ConnectToNeo4j(ok)
    \/ gpc = "done" /\ \E ok \in BOOLEAN : SetupLlmTransformer(ok)
    \/ \E n \in 1..(MaxEnhancedRows + 1) : RemoveChunkFile(n)
    \/ RemoveChunkList
    \/ gpc = "done" /\ BuildFromEnhancedChunksRefused
    \/ gpc = "done" /\ \E clear_ok, clear_again_ok \in BOOLEAN,
                          glob_order \in Orders(GlobChunks) :
                          BuildFromEnhancedChunks(clear_ok, clear_again_ok,
                                                  glob_order)
    \/ gpc = "done" /\ BuildChunk("ok")
    \/ gpc = "done" /\ BuildFromChunksReturn

SpecEnhanced == InitEnhanced /\ [][NextEnhanced]_vars

\* the values and codes tables: a word order for Javanese, an object-verb
\* value whose code is missing, nothing for the other languages
FeatureValues ==
    <<[Language_ID |-> "Javanese", Parameter_ID |-> "81A", Code_ID |-> "81A-2"],
      [Language_ID |-> "Javanese", Parameter_ID |-> "83A", Code_ID |-> "83A-9"],
      [Language_ID |-> "Javanese", Parameter_ID |-> "81A", Code_ID |-> "81A-1"]>>

FeatureCodes ==
    <<[ID |-> "81A-1", Name |-> "SOV"], [ID |-> "81A-2", Name |-> "SVO"]>>

\* what load_data may have put in self.data beside the languages
FeatureTables ==
    {NoFeatures,
     [tables |-> {"values", "codes"}, values |-> FeatureValues,
      codes |-> FeatureCodes],
     [tables |-> {"values", "codes", "parameters"}, values |-> FeatureValues,
      codes |-> FeatureCodes],
     [tables |-> {"values", "codes", "parameters"}, values |-> <<>>,
      codes |-> FeatureCodes]}

\* the country codes of the rendering specification: keys of country_names,
\* other codes, a lower-case spelling of a key, a missing code
RenderCountries == {"ID", "US", "FR", "id", NaN}

RenderTables ==
    UNION {TablesOfLen(n, {"Austronesian", NaN}, RenderCountries) :
              n \in 0..MaxRenderRows}

\* generate_chunks with the feature tables, on every country code
InitRender ==
    /\ loaded \in BOOLEAN
    /\ languages \in IF loaded THEN RenderTables ELSE {<<>>}
    /\ features \in FeatureTables
    /\ batch_size \in 1..MaxBatch
    /\ InitBatcher
    /\ InitBuilder
    /\ InitExplorer
    /\ cli = NoRun
    /\ ops_left = 0
    /\ extraction = [f \in ChunkFileNames |-> DocEmpty]
    /\ hash_of = [p \in HashedProps |-> 0]

SpecRender == InitRender /\ [][NextBatch]_vars

\* a language row of the explorer's store
MkLanguage(name, family, genus, country, macroarea) ==
    [ID |-> name, Name |-> name, Family |-> family, Subfamily |-> NaN,
     Genus |-> genus, Country_ID |-> country, ISO639P3code |-> NaN,
     Macroarea |-> macroarea]

ExplorerTable ==
    <<MkLanguage("Hindi", "Indo-European", "Indic", "IN", "Eurasia"),
      MkLanguage("Spanish", "Indo-European", "Romance", "ES", "Eurasia"),
      MkLanguage("Javanese", "Austronesian", "Javanese", "ID", "Papunesia"),
      MkLanguage("Hausa", "Afro-Asiatic", "West Chadic", "NG", "Africa"),
      MkLanguage("Malay", "Austronesian", "Malayic", "ID", "Papunesia")>>

\* the stores the explorer queries: the first n languages written by
\* complete_missing_languages, on an empty store or on a store in which the
\* extraction path already wrote Javanese with the country name
ExplorerStores ==
    {CompleteRows(G, SubSeq(ExplorerTable, 1, n), 1,
                  MissingLanguages(G.nodes, SubSeq(ExplorerTable, 1, n)), 0) :
        n \in 0..MaxLanguages,
        G \in {EmptyStore,
               [nodes |-> ImportNodes(<<>>, <<DocIndonesia.nodes[1]>>),
                edges |-> EmptyBag]}}

Questions == {"What languages are spoken in Spain?"}

Locations == {"Eurasia", "eurasia", "in", "IN", "es", "Spain", "Zyxw"}

GeographicQueries == {"macroarea", "country_contains", "country_upper",
                      "country_exact"}

LlmRows == {{}, {"Spanish"}}

FamilyTexts ==
    {p[2] : p \in family_mappings_items}
        \cup {"románico", " ROMÁNICO ", "indoeuropeo", "Zyxw", "indo", "Indic",
              "austronesio"}

FamilyQueries == {"mapped_genus", "mapped_family", "family_contains",
                  "genus_contains"}

InitQuery ==
    /\ loaded = FALSE
    /\ languages = <<>>
    /\ features = NoFeatures
    /\ batch_size = 1
    /\ InitBatcher
    /\ graph = NoGraph
    /\ transformer = NoGraph
    /\ \E G \in ExplorerStores : nodes = G.nodes /\ edges = G.edges
    /\ pc = "idle"
    /\ build_files = <<>>
    /\ preserve = FALSE
    /\ build_idx = 0
    /\ total_nodes = 0
    /\ total_relationships = 0
    /\ pbar = 0
    /\ build_log = <<>>
    /\ attempts = <<>>
    /\ graph_documents = <<>>
    /\ last_op = [op |-> "none", files |-> <<>>, preserve |-> FALSE,
                  log |-> <<>>, fail_row |-> 0, result |-> FALSE,
                  totals |-> <<0, 0>>, n_nodes |-> 0, n_edges |-> 0,
                  repeat |-> FALSE]
    /\ InitExplorer
    /\ cli = NoRun
    /\ ops_left = 0
    /\ extraction = [f \in ChunkFileNames |-> DocEmpty]
    /\ hash_of = [p \in HashedProps |-> 0]

\* a query call reads the store and the two connections and changes none of
\* them, so what a call does never depends on the calls before it: every
\* behaviour of the query specification makes one call
NextQuery ==
    \/ \E ok \in BOOLEAN : ExplorerConnect(ok)
    \/ \E ok \in BOOLEAN : SetupQaChain(ok)
    \/ \E q \in Questions, outcome \in ChainOutcomes :
          QueryNaturalLanguage(q, outcome)
    \/ \E q \in Questions, chain \in {NoGraph, "GraphCypherQAChain"},
          outcome \in ChainOutcomes : QueryAndSynthesize(q, chain, outcome)
    \/ \E location \in Locations, fails \in SUBSET GeographicQueries,
          llm_raises \in BOOLEAN, llm_rows \in LlmRows :
          HandleGeographicQuery(location, fails, llm_raises, llm_rows)
    \/ \E family_name \in FamilyTexts, fails \in SUBSET FamilyQueries :
          HandleFamilyQuery(family_name, fails)
    \/ \E fails \in SUBSET {"total", "regions", "families", "coverage_country",
                            "coverage_family", "coverage_coordinates"} :
          ShowAllStatistics(fails)
    \/ \E fails \in SUBSET Range(overview_keys) : GetGraphOverview(fails)

SpecQuery == InitQuery /\ [][NextQuery]_vars

NextCli ==
    \/ \E mode \in {"build", "query", "demo", "full"} : Main(mode)
    \/ \E import_outcome \in {"ok", "ImportError", "Exception"},
          built_ok \in BOOLEAN : BuildGraph(import_outcome, built_ok)
    \/ \E import_outcome \in {"ok", "ImportError", "Exception"} :
          RunQueriesImport(import_outcome)
    \/ \E ok \in BOOLEAN : SetupRagSystem(ok)
    \/ \E outcome \in ChainOutcomes : SampleQuery(outcome)
    \/ SampleQueriesReturn
    \/ \E outcome \in ChainOutcomes : AskQuestion(outcome)
    \/ QuitLoop
    \/ InputError

\* one run of main.py with a mode flag, on any of the stores of the query
\* specification
SpecCli == InitQuery /\ [][NextCli]_vars

(***************************************************************************)
(* Properties of generate_chunks (SpecBatch)                               *)
(***************************************************************************)
\* the records of the batches labelled f, concatenated in generation order
RECURSIVE BatchesOf(_, _)
BatchesOf(cs, f) ==
    IF cs = <<>> THEN <<>>
    ELSE (IF Head(cs)[1] = f THEN Head(cs)[2] ELSE <<>>) \o BatchesOf(Tail(cs), f)

\* the rows of the table whose Family is f, in source order
FamilyRecords(f) == SelectSeq(languages, LAMBDA r : r.Family = f)

\* C1: for every table and batch size, the batches of each family,
\* concatenated in generation order, are exactly that family's records in
\* source order, and no batch holds more than batch_size records
C1_BatchesPartitionFamily ==
    /\ \A k \in DOMAIN chunks : Len(chunks[k][2]) <= batch_size
    /\ (gpc = "done" /\ loaded) =>
          \A f \in Range(FamilyOrder) : BatchesOf(chunks, f) = FamilyRecords(f)

\* a finished run in which a family of more than batch_size records was
\* split into several batches
C1_Witness ==
    /\ gpc = "done"
    /\ \E f \in Range(FamilyOrder) :
          /\ Len(FamilyRecords(f)) > batch_size
          /\ Cardinality({k \in DOMAIN chunks : chunks[k][1] = f}) >= 2
          /\ batch_size >= 2

\* C2: every record with a null Family is in a batch labelled
\* "UnknownFamily", so every record of the table is in exactly one batch
C2_NullFamilyBatched ==
    (gpc = "done" /\ loaded) =>
        \A r \in DOMAIN languages :
            /\ Cardinality({<<k, j>> \in (DOMAIN chunks) \X (1..MaxRows + 1) :
                   j \in DOMAIN chunks[k][2] /\ chunks[k][2][j] = languages[r]}) = 1
            /\ languages[r].Family = NaN =>
                  \E k \in DOMAIN chunks :
                      /\ chunks[k][1] = "UnknownFamily"
                      /\ languages[r] \in Range(chunks[k][2])

\* C3: every record of a batch has the batch's family label as its family,
\* and the batches of one family are adjacent in the output
C3_NoCrossFamilyBatch ==
    /\ \A k \in DOMAIN chunks : \A j \in DOMAIN chunks[k][2] :
          \/ chunks[k][2][j].Family = chunks[k][1]
          \/ chunks[k][2][j].Family = NaN /\ chunks[k][1] = "UnknownFamily"
    /\ \A a, b, c \in DOMAIN chunks :
          (a < b /\ b < c /\ chunks[a][1] = chunks[c][1]) =>
              chunks[b][1] = chunks[a][1]

\* a finished run over two families interleaved in the table, one of them
\* split into several batches
C3_Witness ==
    /\ gpc = "done"
    /\ Len(chunks) >= 3
    /\ \E a, b \in DOMAIN chunks : chunks[a][1] # chunks[b][1]
    /\ \E i, j, k \in DOMAIN languages :
          /\ i < j /\ j < k
          /\ languages[i].Family = languages[k].Family
          /\ languages[j].Family \notin {languages[i].Family, NaN}

(***************************************************************************)
(* Properties of the graph builder (Spec, SpecCsv)                         *)
(***************************************************************************)
LanguageAttrs == {"family", "subfamily", "genus", "macroarea", "iso_code",
                  "country_id"}

\* the identifiers Entity_ID_<n>, 0 <= n < 10000
EntityIds == {"Entity_ID_" \o ToString(n) : n \in 0..(HashMod - 1)}

C5_UniqueLanguageId ==
    \A i, j \in DOMAIN nodes :
        ("Language" \in nodes[i].labels /\ "Language" \in nodes[j].labels
            /\ nodes[i].id = nodes[j].id) => i = j

\* every relationship of the store exists once
EdgesUnique(es) == \A e \in BagToSet(es) : CopiesIn(e, es) = 1

\* C6: under the CSV passes there is at most one LOCATED_IN edge and one
\* BELONGS_TO edge between two given nodes, and a pass that repeats the
\* pass before it (which ran without a failure) adds no edge
C6_CsvEdgesMerged ==
    [][/\ EdgesUnique(edges')
       /\ (/\ ops_left' < ops_left
           /\ last_op'.op \in {"complete", "enrich"}
           /\ last_op'.repeat /\ last_op'.result /\ last_op'.fail_row = 0)
          => edges' = edges]_vars

\* enrich_with_csv_data repeated on a store with both kinds of edges
C6_Witness ==
    /\ last_op.op = "enrich" /\ last_op.repeat /\ last_op.result
    /\ last_op.fail_row = 0
    /\ \E e \in BagToSet(edges) : e.type = "LOCATED_IN"
    /\ \E e \in BagToSet(edges) : e.type = "BELONGS_TO"

\* C7: enrich_with_csv_data leaves every attribute of a Language node that
\* had a value before the pass with that value
C7_EnrichKeepsSetAttributes ==
    [][(ops_left' < ops_left /\ last_op'.op = "enrich") =>
          \A k \in DOMAIN nodes :
              "Language" \in nodes[k].labels =>
                  \A p \in LanguageAttrs :
                      nodes[k].props[p] # Absent =>
                          nodes'[k].props[p] = nodes[k].props[p]]_vars

\* the Country identifiers the extraction path gives the token 'ID'
LlmCountryIds ==
    {FixNode(n).id : n \in {m \in UNION {Range(extraction[f].nodes) : f \in ChunkFileNames} :
                               m.id = "ID" /\ m.type = "Country"}}

\* the Country identifiers the CSV path gives the records of code 'ID'
CsvCountryIds ==
    {Str(languages[k].Country_ID) : k \in {j \in DOMAIN languages :
                                              languages[j].Country_ID = "ID"}}

\* C8: the Country node of a record with code 'ID' has the same identifier
\* whether the extraction path or the CSV path wrote it
C8_CountryIdReconciled ==
    \A i, j \in DOMAIN nodes :
        (/\ "Country" \in nodes[i].labels /\ nodes[i].id \in LlmCountryIds
         /\ "Country" \in nodes[j].labels /\ nodes[j].id \in CsvCountryIds)
        => nodes[i].id = nodes[j].id

\* the property values that mention 'indonesia', whatever the case
SaysIndonesia(props) ==
    \E p \in PropKeys : props[p] \in {"Indonesia", "INDONESIAN Republic"}

\* C9: after _fix_entity_ids no node has the id 'ID': an 'ID' node whose
\* properties mention Indonesia is 'Indonesia_Country', any other 'ID' node
\* is Entity_ID_<n> with 0 <= n < 10000, every other node keeps its id
C9_FixEntityIds ==
    \A d \in Range(graph_documents) : \A k \in DOMAIN d.nodes :
        LET raw == extraction[d.source].nodes[k]
            node == d.nodes[k]
        IN  /\ node.id # "ID"
            /\ (raw.id = "ID" /\ SaysIndonesia(raw.props)) =>
                  node.id = "Indonesia_Country"
            /\ (raw.id = "ID" /\ ~SaysIndonesia(raw.props)) =>
                  node.id \in EntityIds
            /\ raw.id # "ID" => node.id = raw.id

\* an 'ID' node named in upper case was fixed, and the store holds a node
\* whose Entity_ID came from a negative hash
C9_Witness ==
    /\ \E d \in Range(graph_documents) : \E k \in DOMAIN d.nodes :
          /\ extraction[d.source].nodes[k].props["name"] = "INDONESIAN Republic"
          /\ d.nodes[k].id = "Indonesia_Country"
    /\ \E k \in DOMAIN nodes : nodes[k].id \in EntityIds
    /\ \E p \in DOMAIN hash_of : hash_of[p] < 0

C11_CsvRowFailureSkipsRow ==
    [][(/\ ops_left' < ops_left
        /\ last_op'.op \in {"complete", "enrich"}
        /\ last_op'.fail_row # 0) =>
          \A k \in DOMAIN languages :
              k > last_op'.fail_row =>
                  LET name == Str(languages[k].Name)
                  IN  IF last_op'.op = "complete"
                      THEN name \in MissingLanguages(nodes, languages) =>
                              MatchNodes(nodes', "Language", name) # {}
                      ELSE \A n \in MatchNodes(nodes, "Language", name) :
                              \A p \in LanguageAttrs :
                                  nodes'[n].props[p] =
                                      LanguageProps(languages[k])[p]]_vars

(***************************************************************************)
(* Properties of the query functions (SpecQuery)                           *)
(***************************************************************************)
\* C12: no exception leaves query_natural_language or query_and_synthesize;
\* when the chain or the query it runs fails, or the graph connection or the
\* chain is missing, the first returns None and the second returns a string
C12_QueryNeverRaises ==
    /\ call.fn = "query_natural_language" =>
          /\ ~call.raised
          /\ call.ran # <<"ok">> => call.returned = "None"
    /\ call.fn = "query_and_synthesize" =>
          /\ ~call.raised
          /\ call.ran # <<"ok">> => call.returned = "str"

\* query_natural_language, connected and with a chain, returned None from a
\* call in which the execution of the generated query raised
C12_Witness ==
    /\ call.fn = "query_natural_language"
    /\ explorer_graph # NoGraph /\ qa_chain # NoGraph
    /\ call.ran = <<"query_error">>
    /\ call.returned = "None" /\ ~call.raised

\* C13: _handle_geographic_query tries the exact matches against the country
\* code before the case-insensitive containment match, shows the result of
\* the first strategy that returns a non-empty result and of no other, and
\* runs no strategy after it
C13_ExactBeforeContains ==
    call.fn = "geographic" =>
        /\ \A i \in DOMAIN call.ran :
              call.ran[i] = "country_contains" =>
                  \E j \in 1..(i - 1) :
                      call.ran[j] \in {"country_upper", "country_exact"}
        /\ Len(call.shown) <= 1
        /\ call.shown # <<>> =>
              /\ call.shown[1].strategy = call.ran[Len(call.ran)]
              /\ call.shown[1].rows # {}

\* what query_cypher_silent returned in the call for a query of the handler
Returned(name, rows) ==
    IF explorer_graph = NoGraph \/ name \in call.fails THEN {} ELSE rows

\* C14: a family query text that, lowercased and trimmed, is a key of the
\* alias table is searched with the mapped canonical name first ('románico'
\* gives 'Romance'); when that search returns a language, its result is the
\* one shown and no containment strategy is run
C14_AliasSearchedFirst ==
    /\ (call.fn = "family" /\ call.arg \in {"románico", " ROMÁNICO "}) =>
          call.mapped = "Romance"
    /\ (call.fn = "family" /\ FamilyLower(call.arg) \in DOMAIN family_mappings) =>
          LET canonical == family_mappings[FamilyLower(call.arg)]
              by_genus == Returned("mapped_genus",
                                   PropEquals(nodes, "genus", canonical))
              by_family == Returned("mapped_family",
                                    PropEquals(nodes, "family", canonical))
          IN  /\ call.mapped = canonical
              /\ call.ran[1] = "mapped_genus"
              /\ (by_genus # {} \/ by_family # {}) =>
                    /\ call.shown =
                          <<IF by_genus # {}
                            THEN Strategy("mapped_genus", by_genus)
                            ELSE Strategy("mapped_family", by_family)>>
                    /\ \A i \in DOMAIN call.ran :
                          call.ran[i] \in {"mapped_genus", "mapped_family"}

\* the text ' ROMÁNICO ' resolved to Romance and the Romance language of the
\* store shown
C14_Witness ==
    /\ call.fn = "family" /\ call.arg = " ROMÁNICO "
    /\ call.mapped = "Romance"
    /\ call.shown = <<Strategy("mapped_genus", {"Spanish"})>>

\* C15: a canonical name, that is a value of the alias table, resolves to
\* itself
C15_CanonicalNamesFixed ==
    (call.fn = "family" /\ call.arg \in {p[2] : p \in family_mappings_items}) =>
        call.mapped = call.arg

\* the canonical name Indo-European resolved to itself and the languages
\* of that family shown
C15_Witness ==
    /\ call.fn = "family" /\ call.arg = "Indo-European"
    /\ call.mapped = "Indo-European"
    /\ call.shown = <<Strategy("mapped_family", {"Hindi", "Spanish"})>>

\* C16: _handle_family_query reports exactly one outcome for every text, the
\* result of one strategy or 'not found', and reports 'not found' exactly
\* when the alias search, the containment match on family and the
\* containment match on genus all return no language ('Zyxw')
C16_FamilyQueryTotal ==
    call.fn = "family" =>
        LET canonical == MappedName(call.arg)
            by_alias ==
                IF canonical = "" THEN {}
                ELSE Returned("mapped_genus",
                              PropEquals(nodes, "genus", canonical))
                     \cup Returned("mapped_family",
                                   PropEquals(nodes, "family", canonical))
            by_family == Returned("family_contains",
                                  PropContains(nodes, "family", call.arg))
            by_genus == Returned("genus_contains",
                                 PropContains(nodes, "genus", call.arg))
        IN  /\ ~call.raised
            /\ Len(call.shown) + (IF call.not_found THEN 1 ELSE 0) = 1
            /\ call.not_found <=>
                  (by_alias = {} /\ by_family = {} /\ by_genus = {})
            /\ call.arg = "Zyxw" => call.not_found

\* 'Zyxw' reported as not found on a connected store with languages, after
\* the two containment matches ran and no query raised
C16_Witness ==
    /\ call.fn = "family" /\ call.arg = "Zyxw"
    /\ explorer_graph # NoGraph /\ call.fails = {}
    /\ LanguageNodes(nodes) # {}
    /\ call.ran = <<"family_contains", "genus_contains">>
    /\ call.not_found /\ call.shown = <<>>

(***************************************************************************)
(* Properties of the chunk renderer (SpecRender) and of the batch sizes    *)
(***************************************************************************)
\* the rows of country_names, as the source lists them
DisplayNames ==
    {<<"ID", "Indonesia">>, <<"US", "United States">>, <<"CA", "Canada">>,
     <<"AU", "Australia">>, <<"IN", "India">>, <<"CN", "China">>,
     <<"BR", "Brazil">>, <<"AR", "Argentina">>}

\* C17: the Country line of every rendered record shows the display name of
\* the static table when the record's Country_ID is one of its eight keys,
\* and the Country_ID itself for every other code
C17_CountryDisplayName ==
    /\ \A p \in DisplayNames : CountryDisplay(p[1]) = p[2]
    /\ \A k \in DOMAIN chunk_text : \A j \in DOMAIN chunk_text[k].entries :
          LET code == chunks[k][2][j].Country_ID
              line == chunk_text[k].entries[j].Country
          IN  /\ \A p \in DisplayNames :
                    code = p[1] => line = "- Country: " \o p[2]
              /\ (code # NaN /\ code \notin {p[1] : p \in DisplayNames}) =>
                    line = "- Country: " \o code

\* a chunk of two records, one with the code ID shown as Indonesia, one with
\* the lower-case text id shown as it is
C17_Witness ==
    \E k \in DOMAIN chunk_text :
        /\ Len(chunk_text[k].entries) = 2
        /\ chunks[k][2][1].Country_ID = "ID"
        /\ chunk_text[k].entries[1].Country = "- Country: Indonesia"
        /\ chunks[k][2][2].Country_ID = "id"
        /\ chunk_text[k].entries[2].Country = "- Country: id"

\* C18: the text of a chunk has one 'Language:' entry per record of the
\* batch, with the record's name, in batch order, a header count equal to
\* the number of records, and the relationship line with the family label
\* in both places
C18_ChunkListsBatch ==
    \A k \in DOMAIN chunk_text :
        LET label == chunks[k][1]
            batch == chunks[k][2]
            text == chunk_text[k]
        IN  /\ DOMAIN text.entries = DOMAIN batch
            /\ \A j \in DOMAIN batch :
                  text.entries[j].Language = "Language: " \o batch[j].Name
            /\ text.count = "Languages in this chunk: " \o ToString(Len(batch))
            /\ text.hint = "- Each " \o label \o " language BELONGS_TO "
                                \o label \o "Family"
            /\ label = "Austronesian" =>
                  text.hint = "- Each Austronesian language BELONGS_TO AustronesianFamily"

\* a chunk of two Austronesian records cut with a batch size of three
C18_Witness ==
    /\ batch_size = 3
    /\ \E k \in DOMAIN chunk_text :
          /\ chunks[k][1] = "Austronesian"
          /\ Len(chunks[k][2]) = 2
          /\ chunk_text[k].entries[1].Language = "Language: Javanese"
          /\ chunk_text[k].entries[2].Language = "Language: French"
          /\ chunk_text[k].count = "Languages in this chunk: 2"

\* every chunk file holds what _create_chunk_content returns for its family
\* label, batch and chunk number when called in this state
RenderedAgain ==
    \A k \in DOMAIN chunk_text :
        chunk_text[k] = CreateChunkContent(chunks[k][2], chunks[k][1], k)

C20_BatchCount ==
    (gpc = "done" /\ loaded) =>
        \A f \in Range(FamilyOrder) :
            LET n == Len(FamilyRecords(f))
                ks == {k \in DOMAIN chunks : chunks[k][1] = f}
                count == (n + batch_size - 1) \div batch_size
            IN  n >= 1 =>
                  /\ Cardinality(ks) = count
                  /\ \A k \in ks :
                        Len(chunks[k][2]) =
                            IF \E later \in ks : later > k THEN batch_size
                            ELSE n - batch_size * (count - 1)

\* a family of four records batched by three: sizes 3 and 1
C20_Witness ==
    /\ gpc = "done" /\ batch_size = 3
    /\ \E f \in Range(FamilyOrder) :
          /\ Len(FamilyRecords(f)) = 4
          /\ \E a, b \in DOMAIN chunks :
                /\ chunks[a][1] = f /\ chunks[b][1] = f
                /\ Len(chunks[a][2]) = 3 /\ Len(chunks[b][2]) = 1

(***************************************************************************)
(* Properties of the build drivers, the CSV passes and the command line    *)
(***************************************************************************)
\* the identifiers the chunk files of a build give to the store: the nodes
\* of their graph documents after _fix_entity_ids and the end nodes of
\* their relationships
ProducedIds(files) ==
    UNION {LET doc == FixEntityIds(extraction[f])
           IN  {doc.nodes[k].id : k \in DOMAIN doc.nodes}
                   \cup {doc.relationships[k].source : k \in DOMAIN doc.relationships}
                   \cup {doc.relationships[k].target : k \in DOMAIN doc.relationships} :
           f \in Range(files)}

C23_ProgressCountsEveryChunk ==
    [][/\ (pc = "build" /\ pc' = "build") =>
            /\ build_idx' = build_idx + 1
            /\ pbar' = pbar + 1
       /\ (pc = "build" /\ pc' = "idle") =>
            pbar = Len(build_files)]_vars

\* C25: after any sequence of complete_missing_languages and
\* enrich_with_csv_data the store holds at most one Country node per country
\* identifier
C25_UniqueCountryId ==
    \A i, j \in DOMAIN nodes :
        ("Country" \in nodes[i].labels /\ "Country" \in nodes[j].labels
            /\ nodes[i].id = nodes[j].id) => i = j

\* C27: complete_missing_languages creates a Languagefamily node and a
\* BELONGS_TO edge for a language only when the Family cell of that
\* language is not null
C27_FamilyOnlyWhenNotNull ==
    [][(ops_left' < ops_left /\ last_op'.op = "complete") =>
          /\ \A k \in DOMAIN nodes' \ DOMAIN nodes :
                "Languagefamily" \in nodes'[k].labels =>
                    \E r \in DOMAIN languages :
                        /\ NotNa(languages[r].Family)
                        /\ nodes'[k].id = languages[r].Family \o "Family"
          /\ \A e \in BagToSet(edges') \ BagToSet(edges) :
                e.type = "BELONGS_TO" =>
                    \E r \in DOMAIN languages :
                        /\ Str(languages[r].Name) = nodes'[e.src].id
                        /\ NotNa(languages[r].Family)]_vars

\* the strategies of _handle_family_query in the order the source runs them
FamilyStrategyOrder ==
    <<"mapped_genus", "mapped_family", "family_contains", "genus_contains">>

\* C28: when the text of a family query is a key of the alias table and both
\* exact searches with the mapped name return nothing, the handler goes on
\* to the containment strategies with the original text, family first and
\* genus second; the strategies are tried in the fixed order exact genus,
\* exact family, containment on family, containment on genus
C28_AliasFallsThrough ==
    (call.fn = "family" /\ FamilyLower(call.arg) \in DOMAIN family_mappings) =>
        LET canonical == family_mappings[FamilyLower(call.arg)]
            exact_genus == Returned("mapped_genus",
                                    PropEquals(nodes, "genus", canonical))
            exact_family == Returned("mapped_family",
                                     PropEquals(nodes, "family", canonical))
            by_family == Returned("family_contains",
                                  PropContains(nodes, "family", call.arg))
            by_genus == Returned("genus_contains",
                                 PropContains(nodes, "genus", call.arg))
        IN  /\ Len(call.ran) \in 1..4
            /\ call.ran = SubSeq(FamilyStrategyOrder, 1, Len(call.ran))
            /\ (exact_genus = {} /\ exact_family = {}) =>
                  /\ Len(call.ran) >= 3
                  /\ IF by_family # {}
                     THEN /\ call.ran = SubSeq(FamilyStrategyOrder, 1, 3)
                          /\ call.shown = <<Strategy("family_contains", by_family)>>
                     ELSE /\ call.ran = FamilyStrategyOrder
                          /\ call.shown =
                                IF by_genus # {}
                                THEN <<Strategy("genus_contains", by_genus)>>
                                ELSE <<>>
                          /\ call.not_found <=> by_genus = {}

\* the key 'indoeuropeo' whose two exact searches returned nothing (both
\* queries raised) on a store with Indo-European languages: the two
\* containment matches ran with the text as typed, which no family or genus
\* contains, where the mapped name would have matched
C28_Witness ==
    /\ call.fn = "family" /\ call.arg = "indoeuropeo"
    /\ call.mapped = "Indo-European"
    /\ call.fails = {"mapped_genus", "mapped_family"}
    /\ PropContains(nodes, "family", call.mapped) = {"Hindi", "Spanish"}
    /\ call.ran = FamilyStrategyOrder
    /\ call.shown = <<>> /\ call.not_found

\* C29: show_all_statistics completes without raising on every store,
\* the store with no Language node included: no percentage is computed by
\* dividing by a language count of zero
C29_StatisticsNeverRaise ==
    call.fn = "statistics" => ~call.raised

\* C30: get_graph_overview returns a mapping with an entry for each of its
\* five queries, the result of the query or an error text, and a query that
\* fails does not keep the later ones from being run
C30_OverviewReturned ==
    call.fn = "overview" =>
        /\ call.ran = overview_keys
        /\ call.returned # "None"
        /\ call.returned = call.shown

\* C22: generate_chunks numbers the chunk files consecutively from 1 in the
\* order it generates them, without gap or repetition, one file per batch,
\* and the chunk list it writes names exactly the returned paths in that
\* order; build_from_enhanced_chunks reads the list back and processes the
\* chunk files of the list that exist, in the order of the list
C22_ChunkListRoundTrip ==
    [][/\ Len(chunk_files') = Len(chunks')
       /\ \A k \in DOMAIN chunk_files' : chunk_files'[k] = ChunkPath(k)
       /\ (gpc = "family" /\ gpc' = "done") =>
            /\ Len(manifest') = Len(chunk_files')
            /\ \A k \in DOMAIN manifest' :
                  StrStrip(manifest'[k]) = chunk_files'[k]
       /\ (pc = "idle" /\ pc' = "build" /\ manifest # <<>>) =>
            build_files' = SelectSeq(chunk_files, OnDisk)
       /\ (pc = "build" /\ pc' = "build") =>
            /\ build_idx' = build_idx + 1
            /\ attempts' = [attempts EXCEPT ![build_idx] = @ + 1]]_vars

\* three chunk files were generated, the second was removed, and the
\* enhanced build handled the first and is about to handle the third
C22_Witness ==
    /\ Len(chunk_files) = 3 /\ Len(manifest) = 3
    /\ pc = "build"
    /\ build_files = <<ChunkPath(1), ChunkPath(3)>>
    /\ build_idx = 2 /\ attempts = <<1, 0>>

\* C26: build_from_enhanced_chunks deletes the graph data only when it has
\* chunk files to build from; when it finds no chunk list entry and no
\* chunk file it returns (0, 0) and leaves the store as it was
C26_NoFilesLeavesStore ==
    [][(/\ pc = "idle" /\ ops_left' < ops_left
        /\ last_op'.op = "enhanced") =>
          /\ last_op'.totals = <<0, 0>>
          /\ nodes' = nodes
          /\ edges' = edges]_vars

\* the outcome of the operation a mode stands for: the graph was built
\* (--build), the query system was set up and the session ended without an
\* error (--query, --demo), both (--full)
Succeeded ==
    LET queried == cli.cypher_chain # NoGraph /\ ~cli.input_error
    IN  CASE cli.mode = "build" -> cli.built
          [] cli.mode \in {"query", "demo"} -> queried
          [] cli.mode = "full" -> cli.built /\ queried
          [] OTHER -> FALSE

\* C24: in each of the modes --build, --query, --demo and --full the exit
\* code is 0 exactly when the operation succeeded and 1 when it failed (the
\* graph was not built, or the query system could not be set up); in --full
\* the demo queries run only after a successful build
C24_ExitCodeIsOutcome ==
    /\ cli.pc = "exit" =>
          /\ cli.exit_code \in {0, 1}
          /\ cli.exit_code = 0 <=> Succeeded
    /\ (cli.mode = "full" /\ cli.demo_ran) => cli.built

====
